---- MODULE Spec2Model ----
(***************************************************************************)
(* Carbon footprint calculator (src/app/page.tsx).                         *)
(*                                                                         *)
(* JavaScript numbers are modelled as IEEE-754 binary64 values: every      *)
(* arithmetic operator computes the exact result and rounds it to the      *)
(* nearest binary64 value, ties to even, with gradual underflow, overflow  *)
(* to infinity, signed zeros and NaN.  A property lookup obj[key] yields a *)
(* JavaScript value: a number (own key), an object (a key inherited from   *)
(* Object.prototype) or undefined.                                         *)
(***************************************************************************)
EXTENDS Integers, Sequences, FiniteSets, TLC

VARIABLES formData, currentStep, subStep, showResults, progress,
          carbonFootprint, recommendations, calculatedFrom, effectDeps

\* calculatedFrom is a history variable, not program state: the form data
\* the stored carbonFootprint was calculated from (<<>> before the first
\* calculation).  effectDeps is the dependency array [currentStep, subStep]
\* the progress effect last ran with (<<>> before it ran for the first
\* time), which React keeps to decide whether the effect runs again.
vars == <<formData, currentStep, subStep, showResults, progress,
          carbonFootprint, recommendations, calculatedFrom, effectDeps>>

(***************************************************************************)
(* Numbers                                                                 *)
(***************************************************************************)
(* Natural numbers of any size: the sequence of their digits in base 2^15, *)
(* least significant first, without leading zero digits (0 is <<>>).       *)
(***************************************************************************)
\* the one element of the set S.  The({e : x \in {d}}) is e with x standing
\* for the value of d, which is worked out once however often e uses x
The(S) == CHOOSE v \in S : TRUE

Base == 32768

LimbBits == 15

Limb(a, i) == IF i <= Len(a) THEN a[i] ELSE 0

RECURSIVE Trim(_)
Trim(digits) ==
    The({IF a = <<>> THEN a
         ELSE IF a[Len(a)] = 0 THEN Trim(SubSeq(a, 1, Len(a) - 1))
         ELSE a : a \in {digits}})

RECURSIVE AddFrom(_, _, _, _)
AddFrom(a, b, from, carried) ==
    The({IF i > Len(a) /\ i > Len(b)
         THEN IF carry = 0 THEN <<>> ELSE <<carry>>
         ELSE LET s == Limb(a, i) + Limb(b, i) + carry
              IN <<s % Base>> \o AddFrom(a, b, i + 1, s \div Base) :
             i \in {from}, carry \in {carried}})

BigAdd(x, y) == The({AddFrom(a, b, 1, 0) : a \in {x}, b \in {y}})

RECURSIVE SubFrom(_, _, _, _)
SubFrom(a, b, from, borrowed) ==
    The({IF i > Len(a) THEN <<>>
         ELSE LET s == a[i] - Limb(b, i) - borrow
              IN IF s < 0 THEN <<s + Base>> \o SubFrom(a, b, i + 1, 1)
                 ELSE <<s>> \o SubFrom(a, b, i + 1, 0) :
             i \in {from}, borrow \in {borrowed}})

\* a - b for a >= b
BigSub(x, y) == The({Trim(SubFrom(a, b, 1, 0)) : a \in {x}, b \in {y}})

RECURSIVE CmpAt(_, _, _)
CmpAt(a, b, from) ==
    The({IF i = 0 THEN 0
         ELSE IF a[i] > b[i] THEN 1
         ELSE IF a[i] < b[i] THEN -1
         ELSE CmpAt(a, b, i - 1) : i \in {from}})

\* -1, 0 or 1 as a < b, a = b or a > b
BigCmp(x, y) ==
    The({IF Len(a) > Len(b) THEN 1
         ELSE IF Len(a) < Len(b) THEN -1
         ELSE CmpAt(a, b, Len(a)) : a \in {x}, b \in {y}})

RECURSIVE MulLimbFrom(_, _, _, _)
MulLimbFrom(a, d, from, carried) ==
    The({IF i > Len(a)
         THEN IF carry = 0 THEN <<>> ELSE <<carry>>
         ELSE LET p == a[i] * d + carry
              IN <<p % Base>> \o MulLimbFrom(a, d, i + 1, p \div Base) :
             i \in {from}, carry \in {carried}})

\* a * d for the one-digit number d
MulLimb(x, digit) ==
    The({MulLimbFrom(a, d, 1, 0) : a \in {x}, d \in {digit}})

RECURSIVE MulFrom(_, _, _)
MulFrom(a, b, from) ==
    The({IF j > Len(b) THEN <<>>
         ELSE BigAdd(MulLimb(a, b[j]), <<0>> \o MulFrom(a, b, j + 1)) :
             j \in {from}})

BigMul(x, y) == The({Trim(MulFrom(a, b, 1)) : a \in {x}, b \in {y}})

\* a * 2^k
ShiftLeft(x, by) ==
    The({IF a = <<>> THEN a
         ELSE [i \in 1..(k \div LimbBits) |-> 0]
                  \o MulLimb(a, 2 ^ (k % LimbBits)) :
             a \in {x}, k \in {by}})

\* floor(a / 2^k)
ShiftRight(x, by) ==
    The({IF Len(a) <= q THEN <<>>
         ELSE Trim([i \in 1..(Len(a) - q) |->
                       (a[i + q] \div 2 ^ r)
                         + (Limb(a, i + q + 1) % 2 ^ r)
                             * 2 ^ (LimbBits - r)]) :
             a \in {x}, q \in {by \div LimbBits}, r \in {by % LimbBits}})

\* the number of binary digits of a
BitLen(x) ==
    The({IF a = <<>> THEN 0
         ELSE LimbBits * (Len(a) - 1)
                + (CHOOSE k \in 1..LimbBits :
                       2 ^ (k - 1) <= a[Len(a)] /\ a[Len(a)] < 2 ^ k) :
             a \in {x}})

\* binary digit i of a, digit 0 the least significant
Bit(x, at) ==
    The({(Limb(a, i \div LimbBits + 1) \div 2 ^ (i % LimbBits)) % 2 :
             a \in {x}, i \in {at}})

\* the k least significant binary digits of a are all zero
LowBitsZero(x, count) ==
    \E a \in {x}, k \in {count} :
        /\ \A i \in 1..(k \div LimbBits) : Limb(a, i) = 0
        /\ Limb(a, k \div LimbBits + 1) % 2 ^ (k % LimbBits) = 0

\* the number of zero binary digits at the low end of a # 0
TrailingZeros(x) ==
    The({The({LimbBits * (j - 1)
                + (CHOOSE k \in 0..(LimbBits - 1) :
                       a[j] % 2 ^ k = 0 /\ (a[j] \div 2 ^ k) % 2 = 1) :
                  j \in {CHOOSE i \in 1..Len(a) :
                             a[i] # 0 /\ \A h \in 1..(i - 1) : a[h] = 0}}) :
             a \in {x}})

\* the largest t in lowest..highest with t * d <= cur, by bisection
RECURSIVE QuotientDigit(_, _, _, _)
QuotientDigit(cur, d, lowest, highest) ==
    The({IF lo = hi THEN lo
         ELSE The({IF BigCmp(MulLimb(d, mid), cur) <= 0
                   THEN QuotientDigit(cur, d, mid, hi)
                   ELSE QuotientDigit(cur, d, lo, mid - 1) :
                       mid \in {(lo + hi + 1) \div 2}}) :
             lo \in {lowest}, hi \in {highest}})

\* quotient and remainder of a by d, digit by digit from digit i down.
\* With c the two digits of cur at and above the top digit of d, a
\* quotient digit lies between c \div (top + 1) and c \div top.
RECURSIVE LongDivFrom(_, _, _, _)
LongDivFrom(a, d, from, remainder) ==
    The({IF i = 0 THEN [q |-> <<>>, r |-> rem]
         ELSE The({The({The({[q |-> Append(rest.q, t), r |-> rest.r] :
                                 rest \in {LongDivFrom(
                                               a, d, i - 1,
                                               BigSub(cur,
                                                      Trim(MulLimb(d, t))))}}) :
                            t \in {QuotientDigit(
                                       cur, d, c \div (d[Len(d)] + 1),
                                       IF c \div d[Len(d)] < Base
                                       THEN c \div d[Len(d)]
                                       ELSE Base - 1)}}) :
                      cur \in {Trim(<<a[i]>> \o rem)},
                      c \in {Limb(rem, Len(d)) * Base
                               + Limb(<<a[i]>> \o rem, Len(d))}}) :
             i \in {from}, rem \in {remainder}})

\* [q, r] with a = q * d + r and r < d, for d # 0.  Both are first
\* multiplied by the power of two that fills the top digit of d, which
\* brings the bounds of a quotient digit close together.
BigDivMod(x, y) ==
    The({The({[q |-> Trim(s.q), r |-> ShiftRight(s.r, by)] :
                 s \in {LongDivFrom(ShiftLeft(x, by), ShiftLeft(y, by),
                                    Len(ShiftLeft(x, by)), <<>>)}}) :
             by \in {(LimbBits - (BitLen(y) % LimbBits)) % LimbBits}})

(***************************************************************************)
(* IEEE-754 binary64 values.  A finite value is (-1)^neg * m * 2^e with m  *)
(* odd (m = <<>>, e = 0 for the zeros +0 and -0); the other classes are   *)
(* the two infinities and NaN.                                             *)
(***************************************************************************)
NaN == [cls |-> "nan", neg |-> FALSE, m |-> <<>>, e |-> 0]

Infinity(neg) == [cls |-> "inf", neg |-> neg, m |-> <<>>, e |-> 0]

SignedZero(neg) == [cls |-> "fin", neg |-> neg, m |-> <<>>, e |-> 0]

IsNaN(x) == x.cls = "nan"

IsZero(x) == \E v \in {x} : v.cls = "fin" /\ v.m = <<>>

\* the finite value m * 2^e, m # 0, with the zero digits of m moved to e
Canonical(neg, significand, exponent) ==
    The({The({[cls |-> "fin", neg |-> neg, m |-> ShiftRight(m, tz),
               e |-> e + tz] : tz \in {TrailingZeros(m)}}) :
             m \in {significand}, e \in {exponent}})

\* the binary64 value nearest to m * 2^e, ties to the even significand:
\* 53 binary digits, the last one no lower than 2^-1074, infinity from
\* 2^1024 on.  The low drop digits of m go; the rest is one more when the
\* highest digit dropped is 1 and either a lower one is too or the last
\* digit kept is odd.
Round(sign, significand, exponent) ==
    The({The({The({The({IF r = <<>> THEN SignedZero(neg)
                        ELSE IF BitLen(r) + e + drop > 1024
                        THEN Infinity(neg)
                        ELSE Canonical(neg, r, e + drop) :
                            r \in {IF /\ drop > 0
                                      /\ Bit(m, drop - 1) = 1
                                      /\ \/ ~LowBitsZero(m, drop - 1)
                                         \/ Limb(kept, 1) % 2 = 1
                                   THEN BigAdd(kept, <<1>>) ELSE kept}}) :
                       kept \in {ShiftRight(m, drop)}}) :
                  drop \in {IF len - 53 > -1074 - e
                            THEN IF len > 53 THEN len - 53 ELSE 0
                            ELSE IF -1074 > e THEN -1074 - e ELSE 0}}) :
             neg \in {sign}, m \in {significand}, e \in {exponent},
             len \in {BitLen(significand)}})

\* the number value of the integer i, |i| < 2^31: no rounding
Num(i) ==
    IF i = 0 THEN SignedZero(FALSE)
    ELSE The({Canonical(i < 0,
                        Trim(<<n % Base, (n \div Base) % Base,
                               n \div (Base * Base)>>),
                        0) : n \in {IF i < 0 THEN -i ELSE i}})

Negate(x) ==
    The({IF v.cls = "nan" THEN v ELSE [v EXCEPT !.neg = ~v.neg] :
             v \in {x}})

\* the position above the highest binary digit of the finite value x # 0
Top(x) == The({BitLen(v.m) + v.e : v \in {x}})

\* the sign (-1, 0, 1) of |a| - |b| for finite a and b
CompareMagnitude(a, b) ==
    IF a.m = <<>> \/ b.m = <<>> THEN BigCmp(a.m, b.m)
    ELSE The({IF ta # tb THEN IF ta > tb THEN 1 ELSE -1
              ELSE BigCmp(ShiftLeft(a.m, a.e - e0),
                          ShiftLeft(b.m, b.e - e0)) :
                  ta \in {Top(a)}, tb \in {Top(b)},
                  e0 \in {IF a.e < b.e THEN a.e ELSE b.e}})

\* the sign (-1, 0, 1) of a - b for a and b other than NaN
Compare(x, y) ==
    The({IF a.cls = "inf"
         THEN IF b.cls = "inf" /\ a.neg = b.neg THEN 0
              ELSE IF a.neg THEN -1 ELSE 1
         ELSE IF b.cls = "inf" THEN IF b.neg THEN 1 ELSE -1
         ELSE IF a.neg # b.neg
         THEN IF a.m = <<>> /\ b.m = <<>> THEN 0
              ELSE IF a.neg THEN -1 ELSE 1
         ELSE The({IF a.neg THEN -c ELSE c :
                      c \in {CompareMagnitude(a, b)}}) :
             a \in {x}, b \in {y}})

\* a + b for finite a and b.  A zero leaves the other operand as it is,
\* and so does an operand more than 64 binary digits below the other: it
\* is less than a quarter of the weight of the other's last digit.
\* Otherwise the significands are brought to the lower exponent e0 and
\* added or, under opposite signs, the smaller taken from the larger;
\* equal magnitudes of opposite signs give +0.
AddFinite(a, b) ==
    IF a.m = <<>> /\ b.m = <<>> THEN SignedZero(a.neg /\ b.neg)
    ELSE IF b.m = <<>> \/ (a.m # <<>> /\ Top(a) - Top(b) > 64) THEN a
    ELSE IF a.m = <<>> \/ Top(b) - Top(a) > 64 THEN b
    ELSE The({The({Round(IF a.neg = b.neg \/ c > 0 THEN a.neg
                         ELSE c < 0 /\ b.neg,
                         IF a.neg = b.neg THEN BigAdd(ma, mb)
                         ELSE BigSub(IF c > 0 THEN ma ELSE mb,
                                     IF c > 0 THEN mb ELSE ma),
                         e0) : c \in {BigCmp(ma, mb)}}) :
                  e0 \in {IF a.e < b.e THEN a.e ELSE b.e},
                  ma \in {ShiftLeft(a.m, IF a.e < b.e THEN 0
                                          ELSE a.e - b.e)},
                  mb \in {ShiftLeft(b.m, IF a.e < b.e THEN b.e - a.e
                                          ELSE 0)}})

\* JavaScript a + b
Add(x, y) ==
    The({IF IsNaN(a) \/ IsNaN(b) THEN NaN
         ELSE IF a.cls = "inf"
         THEN IF b.cls = "inf" /\ a.neg # b.neg THEN NaN ELSE a
         ELSE IF b.cls = "inf" THEN b
         ELSE AddFinite(a, b) : a \in {x}, b \in {y}})

\* JavaScript a - b
Sub(a, b) == Add(a, Negate(b))

\* JavaScript a * b
Mul(x, y) ==
    The({IF IsNaN(a) \/ IsNaN(b) THEN NaN
         ELSE IF a.cls = "inf" \/ b.cls = "inf"
         THEN IF IsZero(a) \/ IsZero(b) THEN NaN
              ELSE Infinity(a.neg # b.neg)
         ELSE Round(a.neg # b.neg, BigMul(a.m, b.m), a.e + b.e) :
             a \in {x}, b \in {y}})

\* a / b for finite a and b # 0: the quotient of the significands to at
\* least 56 binary digits, the last of them set when the division left a
\* remainder
DivFinite(a, b) ==
    The({The({Round(a.neg # b.neg,
                    IF d.r = <<>> THEN d.q
                    ELSE [d.q EXCEPT ![1] = @ + 1 - (@ % 2)],
                    a.e - b.e - k) :
                 d \in {BigDivMod(ShiftLeft(a.m, k), b.m)}}) :
             k \in {IF a.m = <<>> THEN 0
                    ELSE 56 + BitLen(b.m) - BitLen(a.m)}})

\* JavaScript a / b
Div(x, y) ==
    The({IF IsNaN(a) \/ IsNaN(b) THEN NaN
         ELSE IF a.cls = "inf"
         THEN IF b.cls = "inf" THEN NaN ELSE Infinity(a.neg # b.neg)
         ELSE IF b.cls = "inf" THEN SignedZero(a.neg # b.neg)
         ELSE IF IsZero(b)
         THEN IF IsZero(a) THEN NaN ELSE Infinity(a.neg # b.neg)
         ELSE DivFinite(a, b) : a \in {x}, b \in {y}})

\* the double each numeric literal of page.tsx and of the properties
\* below denotes, by <<n, d>> for the literal n / d, converted once
DecTable ==
    [p \in {<<0, 1>>, <<1, 1>>, <<10, 1>>, <<180, 1>>, <<400, 1>>,
          <<1000, 1>>, <<1500, 1>>, <<1700, 1>>, <<1800, 1>>, <<2000, 1>>,
          <<2500, 1>>, <<1, 10>>, <<2, 10>>, <<6, 10>>, <<8, 10>>,
          <<9, 10>>, <<13, 10>>, <<25, 10>>, <<47, 10>>, <<75, 10>>,
          <<1, 100>>, <<2, 100>>, <<15, 100>>, <<95, 100>>, <<1055, 100>>,
          <<2, 1000>>, <<19, 1000>>, <<24, 1000>>, <<33, 1000>>,
          <<35, 1000>>, <<41, 1000>>, <<75, 1000>>, <<89, 1000>>,
          <<171, 1000>>, <<192, 1000>>, <<205, 1000>>, <<225, 1000>>,
          <<324, 1000>>, <<855, 1000>>, <<2725, 1000>>, <<4224, 1000>>,
          <<571, 10000>>, <<21375, 10000>>, <<250535, 100000>>,
          <<1, 1000000000>>} |->
         Div(Num(p[1]), Num(p[2]))]

\* a numeric literal such as 0.024 == Dec(24, 1000): the binary64 value
\* nearest to n / d
Dec(n, d) == DecTable[<<n, d>>]

\* JavaScript a > b and a >= b (false when either side is NaN)
Gt(x, y) ==
    \E a \in {x}, b \in {y} :
        ~IsNaN(a) /\ ~IsNaN(b) /\ Compare(a, b) > 0

Ge(x, y) ==
    \E a \in {x}, b \in {y} :
        ~IsNaN(a) /\ ~IsNaN(b) /\ Compare(a, b) >= 0

\* Math.min and Math.max on integers
\* mutation: the first argument returned uncapped
MathMin_NoCap(a, b) == a

MathMin(a, b) == IF a < b THEN a ELSE b

\* mutation: the second argument returned whatever the first
MathMax_Second(a, b) == b

MathMax(a, b) == IF a > b THEN a ELSE b

(***************************************************************************)
(* JavaScript values produced by table lookups                             *)
(***************************************************************************)
\* keys every object literal inherits from Object.prototype
ObjectPrototypeKeys ==
    {"constructor", "toString", "toLocaleString", "valueOf", "hasOwnProperty",
     "isPrototypeOf", "propertyIsEnumerable", "__proto__",
     "__defineGetter__", "__defineSetter__", "__lookupGetter__",
     "__lookupSetter__"}

\* the number a table entry <<n, d>> denotes
NumberOf(literal) == Dec(literal[1], literal[2])

JsNumber(x) == [type |-> "number", num |-> x]

JsUndefined == [type |-> "undefined", num |-> NaN]

JsObject == [type |-> "object", num |-> NaN]

\* table[key] on an object literal
Lookup(table, key) ==
    IF key \in DOMAIN table THEN JsNumber(NumberOf(table[key]))
    ELSE IF key \in ObjectPrototypeKeys THEN JsObject
    ELSE JsUndefined

\* the number an operand of * is converted to
ToNumber(v) == IF v.type = "number" THEN v.num ELSE NaN

\* truthiness: undefined, 0 and NaN are falsy; functions and objects truthy
Truthy(v) ==
    \/ v.type = "object"
    \/ v.type = "number" /\ ~IsNaN(v.num) /\ ~IsZero(v.num)

\* a || b
JsOr(a, b) == IF Truthy(a) THEN a ELSE b

(***************************************************************************)
(* Constants of the program                                                *)
(***************************************************************************)
initialFormData ==
    [transport |->
        [carType |-> "none", carKm |-> 0, carAge |-> 0, carPassengers |-> 1,
         publicTransportType |-> "", publicTransportKm |-> 0,
         flightsShortHaul |-> 0, flightsMediumHaul |-> 0,
         flightsLongHaul |-> 0,
         motorcycle |-> [owns |-> FALSE, type |-> <<>>, km |-> <<>>]],
     energy |->
        [homeType |-> "", homeSize |-> 0, occupants |-> 1,
         electricityKwh |-> 0, heatingType |-> "", heatingConsumption |-> 0,
         renewableEnergy |-> FALSE, renewablePercentage |-> <<>>,
         insulation |-> "medium"],
     lifestyle |->
        [dietType |-> "", meatFrequency |-> <<>>, localFoodPercentage |-> 0,
         wasteRecycling |-> FALSE, wasteComposting |-> FALSE,
         shoppingHabits |-> [clothes |-> 50, electronics |-> 50,
                             furniture |-> 50],
         waterConsumption |-> 0]]

(***************************************************************************)
(* The factor tables.  An entry is the numeric literal of the source as   *)
(* <<n, d>> for n / d (0.024 is <<24, 1000>>, 180 is <<180, 1>>); NumberOf *)
(* gives the number it denotes.                                            *)
(***************************************************************************)
\* mutation: the short-haul and medium-haul flight factors exchanged
EMISSIONS_FACTORS_FlightsExchanged ==
    [car |-> [electric |-> <<24, 1000>>, hybrid |-> <<89, 1000>>,
              petrol |-> <<192, 1000>>, diesel |-> <<171, 1000>>,
              none |-> <<0, 1>>],
     flights |-> [shortHaul |-> <<400, 1>>, mediumHaul |-> <<180, 1>>,
                  longHaul |-> <<1800, 1>>],
     publicTransport |-> [bus |-> <<89, 1000>>, train |-> <<41, 1000>>,
                          tram |-> <<35, 1000>>, subway |-> <<33, 1000>>,
                          none |-> <<0, 1>>],
     diet |-> [vegan |-> <<1000, 1>>, vegetarian |-> <<1500, 1>>,
               pescatarian |-> <<1700, 1>>, flexitarian |-> <<2000, 1>>,
               omnivore |-> <<2500, 1>>]]

EMISSIONS_FACTORS ==
    [car |-> [electric |-> <<24, 1000>>, hybrid |-> <<89, 1000>>,
              petrol |-> <<192, 1000>>, diesel |-> <<171, 1000>>,
              none |-> <<0, 1>>],
     flights |-> [shortHaul |-> <<180, 1>>, mediumHaul |-> <<400, 1>>,
                  longHaul |-> <<1800, 1>>],
     publicTransport |-> [bus |-> <<89, 1000>>, train |-> <<41, 1000>>,
                          tram |-> <<35, 1000>>, subway |-> <<33, 1000>>,
                          none |-> <<0, 1>>],
     diet |-> [vegan |-> <<1000, 1>>, vegetarian |-> <<1500, 1>>,
               pescatarian |-> <<1700, 1>>, flexitarian |-> <<2000, 1>>,
               omnivore |-> <<2500, 1>>]]

ENERGY_CONVERSION_FACTORS ==
    [gas |-> <<1055, 100>>, oil |-> <<10, 1>>, electric |-> <<1, 1>>,
     heatPump |-> <<1, 1>>]

baseElectricityEmission == Dec(571, 10000)

heatingEmissionFactors ==
    [gas |-> <<205, 1000>>, oil |-> <<324, 1000>>,
     electric |-> <<571, 10000>>, heatPump |-> <<19, 1000>>]

insulationFactors ==
    [poor |-> <<13, 10>>, medium |-> <<1, 1>>, good |-> <<8, 10>>,
     excellent |-> <<6, 10>>]

frenchAverage == Num(9)

worldAverage == Dec(47, 10)

(***************************************************************************)
(* Sector calculators                                                      *)
(***************************************************************************)
\* 1 + Math.min(transport.carAge, 15) * 0.02
ageMultiplier(transport) ==
    Add(Num(1), Mul(Num(MathMin(transport.carAge, 15)), Dec(2, 100)))

\* Math.max(transport.carPassengers, 1)
passengerDivisor(transport) == Num(MathMax(transport.carPassengers, 1))

calculateTransportEmissions(transport) ==
    LET e0 == Num(0)
        e1 == IF transport.carType # "" /\ transport.carType # "none"
              THEN LET baseEmission ==
                           Lookup(EMISSIONS_FACTORS.car, transport.carType)
                   IN Add(e0,
                          Div(Mul(Mul(Num(transport.carKm),
                                      ToNumber(baseEmission)),
                                  ageMultiplier(transport)),
                              passengerDivisor(transport)))
              ELSE e0
        e2 == IF transport.publicTransportType # ""
                 /\ transport.publicTransportType # "none"
              THEN LET ptEmission ==
                           Lookup(EMISSIONS_FACTORS.publicTransport,
                                  transport.publicTransportType)
                   IN Add(e1, Mul(Num(transport.publicTransportKm),
                                  ToNumber(ptEmission)))
              ELSE e1
        e3 == Add(e2, Mul(Num(transport.flightsShortHaul),
                          NumberOf(EMISSIONS_FACTORS.flights.shortHaul)))
        e4 == Add(e3, Mul(Num(transport.flightsMediumHaul),
                          NumberOf(EMISSIONS_FACTORS.flights.mediumHaul)))
        e5 == Add(e4, Mul(Num(transport.flightsLongHaul),
                          NumberOf(EMISSIONS_FACTORS.flights.longHaul)))
    IN Div(e5, Num(1000))

\* mutation: a fixed 100 kWh added to the metered electricity
electricityEmissions_StandingCharge(energy) ==
    LET base == Mul(Div(Num(energy.electricityKwh + 100), Num(1000)),
                    baseElectricityEmission)
    IN IF energy.renewableEnergy
          /\ energy.renewablePercentage # <<>>
          /\ energy.renewablePercentage[1] # 0
       THEN Mul(base,
                Sub(Num(1),
                    Div(Num(energy.renewablePercentage[1]), Num(100))))
       ELSE base

\* mutation: the renewable share netted out without testing the flag
electricityEmissions_IgnoresFlag(energy) ==
    LET base == Mul(Div(Num(energy.electricityKwh), Num(1000)),
                    baseElectricityEmission)
    IN IF energy.renewablePercentage # <<>>
          /\ energy.renewablePercentage[1] # 0
       THEN Mul(base,
                Sub(Num(1),
                    Div(Num(energy.renewablePercentage[1]), Num(100))))
       ELSE base

\* energy.renewableEnergy && energy.renewablePercentage: an absent
\* percentage (undefined) and the number 0 are both falsy
electricityEmissions(energy) ==
    LET base == Mul(Div(Num(energy.electricityKwh), Num(1000)),
                    baseElectricityEmission)
    IN IF energy.renewableEnergy
          /\ energy.renewablePercentage # <<>>
          /\ energy.renewablePercentage[1] # 0
       THEN Mul(base,
                Sub(Num(1),
                    Div(Num(energy.renewablePercentage[1]), Num(100))))
       ELSE base

heatingKwh(energy) ==
    Mul(Num(energy.heatingConsumption),
        ToNumber(JsOr(Lookup(ENERGY_CONVERSION_FACTORS, energy.heatingType),
                      JsNumber(Num(1)))))

heatingEmissionFactor(energy) ==
    ToNumber(JsOr(Lookup(heatingEmissionFactors, energy.heatingType),
                  JsNumber(NumberOf(heatingEmissionFactors.electric))))

heatingEmissions(energy) ==
    Mul(Div(heatingKwh(energy), Num(1000)), heatingEmissionFactor(energy))

insulationMultiplier(energy) ==
    ToNumber(JsOr(Lookup(insulationFactors, energy.insulation),
                  JsNumber(Num(1))))

\* mutation: the result divided by the number of occupants
calculateEnergyEmissions_PerOccupant(energy) ==
    Div(Mul(Add(electricityEmissions(energy), heatingEmissions(energy)),
            insulationMultiplier(energy)),
        Num(MathMax(energy.occupants, 1)))

calculateEnergyEmissions(energy) ==
    Mul(Add(electricityEmissions(energy), heatingEmissions(energy)),
        insulationMultiplier(energy))

\* mutation: the diet lookup without its "|| omnivore" fallback
dietEmission_NoFallback(lifestyle) ==
    ToNumber(Lookup(EMISSIONS_FACTORS.diet, lifestyle.dietType))

dietEmission(lifestyle) ==
    ToNumber(JsOr(Lookup(EMISSIONS_FACTORS.diet, lifestyle.dietType),
                  JsNumber(NumberOf(EMISSIONS_FACTORS.diet.omnivore))))

\* mutation: 0.02 per percent of local food instead of 0.002
localFoodAdjustment_Tenfold(lifestyle) ==
    Sub(Num(1), Mul(Num(lifestyle.localFoodPercentage), Dec(2, 100)))

localFoodAdjustment(lifestyle) ==
    Sub(Num(1), Mul(Num(lifestyle.localFoodPercentage), Dec(2, 1000)))

\* mutation: the recycling reduction applied to the shopping term alone
calculateLifestyleEmissions_RecyclingOnShopping(lifestyle) ==
    LET e1 == Add(Num(0),
                  Div(Mul(dietEmission(lifestyle),
                          localFoodAdjustment(lifestyle)),
                      Num(1000)))
        shoppingEmissions ==
            Mul(Add(Add(Mul(Num(lifestyle.shoppingHabits.clothes),
                            Dec(1, 10)),
                        Mul(Num(lifestyle.shoppingHabits.electronics),
                            Dec(2, 10))),
                    Mul(Num(lifestyle.shoppingHabits.furniture),
                        Dec(15, 100))),
                Dec(1, 100))
        e3 == IF lifestyle.wasteRecycling
              THEN Add(e1, Mul(shoppingEmissions, Dec(9, 10)))
              ELSE Add(e1, shoppingEmissions)
        e4 == IF lifestyle.wasteComposting THEN Mul(e3, Dec(95, 100)) ELSE e3
    IN e4

calculateLifestyleEmissions(lifestyle) ==
    LET e1 == Add(Num(0),
                  Div(Mul(dietEmission(lifestyle),
                          localFoodAdjustment(lifestyle)),
                      Num(1000)))
        shoppingEmissions ==
            Mul(Add(Add(Mul(Num(lifestyle.shoppingHabits.clothes),
                            Dec(1, 10)),
                        Mul(Num(lifestyle.shoppingHabits.electronics),
                            Dec(2, 10))),
                    Mul(Num(lifestyle.shoppingHabits.furniture),
                        Dec(15, 100))),
                Dec(1, 100))
        e2 == Add(e1, shoppingEmissions)
        e3 == IF lifestyle.wasteRecycling THEN Mul(e2, Dec(9, 10)) ELSE e2
        e4 == IF lifestyle.wasteComposting THEN Mul(e3, Dec(95, 100)) ELSE e3
    IN e4

(***************************************************************************)
(* Comparison with the reference averages                                  *)
(***************************************************************************)
\* mutation: the differences taken as average - total
compareToNationalAverage_Reversed(totalEmissions) ==
    [percentageFromNational |->
         Mul(Div(Sub(frenchAverage, totalEmissions), frenchAverage),
             Num(100)),
     percentageFromWorld |->
         Mul(Div(Sub(worldAverage, totalEmissions), worldAverage), Num(100)),
     nationalAverage |-> frenchAverage,
     worldAverage |-> worldAverage]

compareToNationalAverage(totalEmissions) ==
    [percentageFromNational |->
         Mul(Div(Sub(totalEmissions, frenchAverage), frenchAverage),
             Num(100)),
     percentageFromWorld |->
         Mul(Div(Sub(totalEmissions, worldAverage), worldAverage), Num(100)),
     nationalAverage |-> frenchAverage,
     worldAverage |-> worldAverage]

(***************************************************************************)
(* Recommendations.  An action is modelled by its title and impact; its    *)
(* description is a fixed text attached to the title.                      *)
(***************************************************************************)
ActReduceCar ==
    [title |-> "Reduisez vos deplacements en voiture", impact |-> "Eleve"]

ActFlights ==
    [title |-> "Optimisez vos voyages en avion", impact |-> "Modere"]

ActGreenVehicle ==
    [title |-> "Envisagez un vehicule plus ecologique", impact |-> "Eleve"]

ActElectricity ==
    [title |-> "Optimisez votre consommation electrique",
     impact |-> "Eleve"]

ActRenewables ==
    [title |-> "Passez aux energies renouvelables", impact |-> "Tres eleve"]

ActInsulation ==
    [title |-> "Ameliorez l'isolation de votre logement",
     impact |-> "Eleve"]

ActHeating ==
    [title |-> "Changez votre systeme de chauffage",
     impact |-> "Tres eleve"]

ActMeat ==
    [title |-> "Reduisez votre consommation de viande", impact |-> "Eleve"]

ActLocalFood ==
    [title |-> "Privilegiez les produits locaux et de saison",
     impact |-> "Modere"]

ActWaste ==
    [title |-> "Ameliorez votre gestion des dechets", impact |-> "Modere"]

ActShopping ==
    [title |-> "Adoptez une consommation plus responsable",
     impact |-> "Modere"]

\* if (cond) { recs.actions.push(action) }
PushIf(cond, actions, action) ==
    IF cond THEN Append(actions, action) ELSE actions

\* mutation: the category pushed without the length test
PushCategory_Always(recs, category, actions) ==
    Append(recs, [category |-> category, actions |-> actions])

\* if (recs.actions.length > 0) { recommendations.push(recs) }
PushCategory(recs, category, actions) ==
    IF Len(actions) > 0
    THEN Append(recs, [category |-> category, actions |-> actions])
    ELSE recs

\* mutation: the distance threshold tested with >=
transportRecs_NonStrict ==
    LET a1 == PushIf(formData.transport.carKm >= 15000, <<>>, ActReduceCar)
        a2 == PushIf(formData.transport.flightsLongHaul > 0, a1, ActFlights)
        a3 == PushIf(formData.transport.carType = "petrol"
                       \/ formData.transport.carType = "diesel",
                     a2, ActGreenVehicle)
    IN a3

\* mutation: the vehicle test placed before the distance test
transportRecs_VehicleFirst ==
    LET a1 == PushIf(formData.transport.carType = "petrol"
                       \/ formData.transport.carType = "diesel",
                     <<>>, ActGreenVehicle)
        a2 == PushIf(formData.transport.carKm > 15000, a1, ActReduceCar)
        a3 == PushIf(formData.transport.flightsLongHaul > 0, a2, ActFlights)
    IN a3

\* mutation: the distance test made only for a car owner
transportRecs_CarOnly ==
    LET a1 == PushIf(formData.transport.carType # "none"
                       /\ formData.transport.carKm > 15000,
                     <<>>, ActReduceCar)
        a2 == PushIf(formData.transport.flightsLongHaul > 0, a1, ActFlights)
        a3 == PushIf(formData.transport.carType = "petrol"
                       \/ formData.transport.carType = "diesel",
                     a2, ActGreenVehicle)
    IN a3

transportRecs ==
    LET a1 == PushIf(formData.transport.carKm > 15000, <<>>, ActReduceCar)
        a2 == PushIf(formData.transport.flightsLongHaul > 0, a1, ActFlights)
        a3 == PushIf(formData.transport.carType = "petrol"
                       \/ formData.transport.carType = "diesel",
                     a2, ActGreenVehicle)
    IN a3

energyRecs ==
    LET a1 == PushIf(formData.energy.electricityKwh > 5000, <<>>,
                     ActElectricity)
        a2 == PushIf(~formData.energy.renewableEnergy, a1, ActRenewables)
        a3 == PushIf(formData.energy.insulation = "poor"
                       \/ formData.energy.insulation = "medium",
                     a2, ActInsulation)
        a4 == PushIf(formData.energy.heatingType = "oil", a3, ActHeating)
    IN a4

\* mutation: the meat action given whenever the omnivore baseline applies
lifestyleRecs_MeatOnFallback ==
    LET a1 == PushIf(formData.lifestyle.dietType
                         \notin {"vegan", "vegetarian", "pescatarian",
                                 "flexitarian"},
                     <<>>, ActMeat)
        a2 == PushIf(formData.lifestyle.localFoodPercentage < 30, a1,
                     ActLocalFood)
        a3 == PushIf(~formData.lifestyle.wasteRecycling
                       \/ ~formData.lifestyle.wasteComposting,
                     a2, ActWaste)
        a4 == PushIf(formData.lifestyle.shoppingHabits.clothes > 70
                       \/ formData.lifestyle.shoppingHabits.electronics > 70,
                     a3, ActShopping)
    IN a4

lifestyleRecs ==
    LET a1 == PushIf(formData.lifestyle.dietType = "omnivore", <<>>, ActMeat)
        a2 == PushIf(formData.lifestyle.localFoodPercentage < 30, a1,
                     ActLocalFood)
        a3 == PushIf(~formData.lifestyle.wasteRecycling
                       \/ ~formData.lifestyle.wasteComposting,
                     a2, ActWaste)
        a4 == PushIf(formData.lifestyle.shoppingHabits.clothes > 70
                       \/ formData.lifestyle.shoppingHabits.electronics > 70,
                     a3, ActShopping)
    IN a4

getDetailedRecommendations ==
    LET r1 == PushCategory(<<>>, "Transport", transportRecs)
        r2 == PushCategory(r1, "Energie", energyRecs)
        r3 == PushCategory(r2, "Mode de vie", lifestyleRecs)
    IN r3

(***************************************************************************)
(* Rendering: derived state                                                *)
(***************************************************************************)
\* mutation: the energy step with two sub-steps
maxSubStepsOf_TwoInEnergy(step) ==
    CASE step = 1 -> 3
      [] step = 2 -> 2
      [] step = 3 -> 3
      [] OTHER -> 1

\* getCurrentStepMaxSubSteps() when currentStep is step
maxSubStepsOf(step) ==
    CASE step = 1 -> 3
      [] step = 2 -> 3
      [] step = 3 -> 3
      [] OTHER -> 1

getCurrentStepMaxSubSteps == maxSubStepsOf(currentStep)

\* the value the progress effect computes when currentStep is step and
\* subStep is sub
progressValue(step, sub) ==
    Div(Add(Num((step - 1) * 100),
            Mul(Div(Num(sub), Num(maxSubStepsOf(step))), Num(100))),
        Num(3))

\* the committed render changed currentStep or subStep (or was the first
\* one), so that React runs the progress effect
EffectPending == effectDeps # <<currentStep, subStep>>

\* the progress effect: useEffect(..., [currentStep, subStep]).  React runs
\* it after the render it belongs to is committed and before it handles
\* the next event, so every handler waits for it.
progressEffect ==
    /\ EffectPending
    /\ progress' = progressValue(currentStep, subStep)
    /\ effectDeps' = <<currentStep, subStep>>
    /\ UNCHANGED <<formData, currentStep, subStep, showResults,
                   carbonFootprint, recommendations, calculatedFrom>>

\* the results view evaluates getDetailedRecommendations() on the live form
\* data whenever showResults and carbonFootprint are both set; <<>> stands
\* for "not rendered", <<r>> for the rendered recommendation list r
renderedRecommendations ==
    IF showResults /\ carbonFootprint # <<>>
    THEN <<getDetailedRecommendations>>
    ELSE <<>>

(***************************************************************************)
(* The final calculation.  carbonFootprint is <<>> for null and <<r>> for  *)
(* the result record r.                                                    *)
(***************************************************************************)
\* mutation: the total summed without the lifestyle sector
footprintResult_NoLifestyleInTotal(data) ==
    The({The({[total |-> total,
               breakdown |-> [transport |-> transportEmissions,
                              energy |-> energyEmissions,
                              lifestyle |-> lifestyleEmissions],
               comparison |-> compareToNationalAverage(total)] :
                 total \in {Add(transportEmissions, energyEmissions)}}) :
             transportEmissions \in
                 {calculateTransportEmissions(data.transport)},
             energyEmissions \in {calculateEnergyEmissions(data.energy)},
             lifestyleEmissions \in
                 {calculateLifestyleEmissions(data.lifestyle)}})

\* the record calculateFinalFootprint builds from the form data
footprintResult(data) ==
    The({The({[total |-> total,
               breakdown |-> [transport |-> transportEmissions,
                              energy |-> energyEmissions,
                              lifestyle |-> lifestyleEmissions],
               comparison |-> compareToNationalAverage(total)] :
                 total \in {Add(Add(transportEmissions, energyEmissions),
                                lifestyleEmissions)}}) :
             transportEmissions \in
                 {calculateTransportEmissions(data.transport)},
             energyEmissions \in {calculateEnergyEmissions(data.energy)},
             lifestyleEmissions \in
                 {calculateLifestyleEmissions(data.lifestyle)}})

calculateFinalFootprint ==
    /\ carbonFootprint' = <<footprintResult(formData)>>
    /\ calculatedFrom' = <<formData>>
    /\ showResults' = TRUE
    /\ UNCHANGED <<formData, currentStep, subStep, progress, effectDeps>>
    /\ recommendations' = renderedRecommendations'

(***************************************************************************)
(* Input records for the calculation core                                  *)
(***************************************************************************)
MaxPassengers == 3

MaxFlights == 1

CarTypes ==
    {"", "none", "electric", "hybrid", "petrol", "diesel", "truck",
     "constructor"}

CarKms == {0, 15000, 20000}

CarAges == {0, 5, 15, 20}

PublicTransportTypes ==
    {"", "none", "bus", "train", "tram", "subway", "ferry"}

HeatingTypes ==
    {"", "none", "electric", "gas", "oil", "heatPump", "wood", "constructor"}

InsulationLevels ==
    {"", "none", "poor", "medium", "good", "excellent", "constructor"}

DietTypes ==
    {"", "none", "vegan", "vegetarian", "pescatarian", "flexitarian",
     "omnivore", "carnivore", "constructor"}

TransportRec(ct, km, age, p, pt, ptKm, fs, fm, fl) ==
    [initialFormData.transport EXCEPT
        !.carType = ct, !.carKm = km, !.carAge = age, !.carPassengers = p,
        !.publicTransportType = pt, !.publicTransportKm = ptKm,
        !.flightsShortHaul = fs, !.flightsMediumHaul = fm,
        !.flightsLongHaul = fl]

EnergyRec(occ, kwh, ht, hc, ren, pct, ins) ==
    [initialFormData.energy EXCEPT
        !.occupants = occ, !.electricityKwh = kwh, !.heatingType = ht,
        !.heatingConsumption = hc, !.renewableEnergy = ren,
        !.renewablePercentage = pct, !.insulation = ins]

LifestyleRec(diet, loc, rec, comp, cl, el, fu) ==
    [initialFormData.lifestyle EXCEPT
        !.dietType = diet, !.localFoodPercentage = loc,
        !.wasteRecycling = rec, !.wasteComposting = comp,
        !.shoppingHabits = [clothes |-> cl, electronics |-> el,
                            furniture |-> fu]]

\* the car fields in full, public transport and flights at rest
CarInputs ==
    {TransportRec(ct, km, age, p, "none", 0, 0, 0, 0) :
        ct \in CarTypes, km \in CarKms, age \in CarAges,
        p \in 0..MaxPassengers}

\* public transport and flights in full, beside a few cars
PublicTransportInputs ==
    {TransportRec(ct, km, 5, 1, pt, ptKm, fs, fm, fl) :
        ct \in {"none", "petrol"}, km \in {0, 20000},
        pt \in PublicTransportTypes, ptKm \in {0, 1000},
        fs \in 0..MaxFlights, fm \in 0..MaxFlights, fl \in 0..MaxFlights}

EnergyInputs ==
    {EnergyRec(1, kwh, ht, hc, ren, pct, ins) :
        kwh \in {0, 5000, 6000}, ht \in HeatingTypes, hc \in {0, 1000},
        ren \in BOOLEAN, pct \in {<<>>, <<0>>, <<50>>, <<100>>},
        ins \in InsulationLevels}

DietInputs ==
    {LifestyleRec(diet, loc, rec, comp, sh, sh, sh) :
        diet \in DietTypes, loc \in {0, 29, 30, 100}, rec \in BOOLEAN,
        comp \in BOOLEAN, sh \in {0, 50}}

ShoppingInputs ==
    {LifestyleRec(diet, 0, rec, comp, cl, el, fu) :
        diet \in {"", "vegan"}, rec \in BOOLEAN, comp \in BOOLEAN,
        cl \in {0, 50, 70, 71}, el \in {0, 50, 70, 71}, fu \in {0, 50, 100}}

\* records varied together across the three sectors
TransportJoint ==
    {TransportRec("none", 0, 0, 0, "none", 0, 0, 0, 0),
     TransportRec("", 0, 0, 0, "", 0, 0, 0, 0),
     TransportRec("petrol", 20000, 5, 1, "none", 0, 0, 0, 0),
     TransportRec("diesel", 15000, 20, 2, "train", 1000, 0, 1, 1),
     TransportRec("truck", 15000, 0, 1, "", 0, 0, 0, 0),
     TransportRec("none", 20000, 5, 1, "bus", 1000, 1, 0, 0),
     TransportRec("electric", 15000, 15, 3, "ferry", 1000, 0, 0, 0)}

EnergyJoint ==
    {EnergyRec(0, 0, "", 0, FALSE, <<>>, "medium"),
     EnergyRec(0, 0, "none", 0, FALSE, <<>>, ""),
     EnergyRec(0, 0, "none", 0, FALSE, <<0>>, "none"),
     EnergyRec(1, 6000, "gas", 1000, FALSE, <<>>, "medium"),
     EnergyRec(1, 5000, "oil", 1000, TRUE, <<50>>, "good"),
     EnergyRec(2, 5000, "electric", 1000, TRUE, <<100>>, "good"),
     EnergyRec(1, 6000, "heatPump", 1000, TRUE, <<>>, "excellent"),
     EnergyRec(1, 6000, "wood", 1000, FALSE, <<50>>, "poor")}

LifestyleJoint ==
    {LifestyleRec("", 0, FALSE, FALSE, 0, 0, 0),
     LifestyleRec("none", 0, FALSE, FALSE, 0, 0, 0),
     LifestyleRec("vegan", 100, FALSE, FALSE, 0, 0, 0),
     LifestyleRec("omnivore", 30, TRUE, TRUE, 70, 70, 100),
     LifestyleRec("vegetarian", 30, TRUE, TRUE, 50, 50, 50),
     LifestyleRec("flexitarian", 29, TRUE, FALSE, 71, 0, 50),
     LifestyleRec("carnivore", 100, FALSE, TRUE, 50, 71, 0),
     initialFormData.lifestyle}

\* the record the one-sector variations start from: initialFormData with
\* its three empty categories filled in
filledFormData ==
    [initialFormData EXCEPT !.transport.publicTransportType = "none",
                            !.energy.heatingType = "electric",
                            !.lifestyle.dietType = "omnivore"]

\* the fields the form collects and no calculation reads
UnusedValues ==
    [motorcycle : {[owns |-> FALSE, type |-> <<>>, km |-> <<>>],
                   [owns |-> TRUE, type |-> <<"scooter">>, km |-> <<3000>>]},
     homeType : {"", "house"},
     homeSize : {0, 120},
     occupants : {1, 4},
     meatFrequency : {<<>>, <<7>>},
     waterConsumption : {0, 150}]

WithUnused(data, u) ==
    [data EXCEPT !.transport.motorcycle = u.motorcycle,
                 !.energy.homeType = u.homeType,
                 !.energy.homeSize = u.homeSize,
                 !.energy.occupants = u.occupants,
                 !.lifestyle.meatFrequency = u.meatFrequency,
                 !.lifestyle.waterConsumption = u.waterConsumption]

UnusedInputs ==
    {WithUnused(d, u) :
        d \in {initialFormData,
               [transport |->
                    TransportRec("diesel", 15000, 20, 2, "train", 1000,
                                 0, 1, 1),
                energy |-> EnergyRec(1, 6000, "oil", 1000, TRUE, <<50>>,
                                     "good"),
                lifestyle |-> LifestyleRec("omnivore", 30, TRUE, TRUE,
                                           70, 71, 100)]},
        u \in UnusedValues}

\* a record whose total is the double next above the national average
JustAboveNational ==
    [initialFormData EXCEPT
        !.transport = TransportRec("diesel", 36500, 0, 1, "train", 1000,
                                   0, 1, 0),
        !.lifestyle = LifestyleRec("", 0, TRUE, FALSE, 0, 0, 50)]

Inputs ==
    {initialFormData, JustAboveNational}
    \cup UnusedInputs
    \cup {[filledFormData EXCEPT !.transport = t] :
            t \in CarInputs \cup PublicTransportInputs}
    \cup {[filledFormData EXCEPT !.energy = e] : e \in EnergyInputs}
    \cup {[filledFormData EXCEPT !.lifestyle = l] :
            l \in DietInputs \cup ShoppingInputs}
    \cup {[transport |-> t, energy |-> e, lifestyle |-> l] :
            t \in TransportJoint, e \in EnergyJoint, l \in LifestyleJoint}

(***************************************************************************)
(* The calculation core applied to every input record: the form holds an   *)
(* arbitrary well-typed record on the last wizard screen and "Calculer"    *)
(* is pressed.                                                             *)
(***************************************************************************)
InitCalc ==
    /\ formData \in Inputs
    /\ currentStep = 3
    /\ subStep = 3
    /\ showResults = FALSE
    /\ progress = progressValue(currentStep, subStep)
    /\ carbonFootprint = <<>>
    /\ recommendations = <<>>
    /\ calculatedFrom = <<>>
    /\ effectDeps = <<currentStep, subStep>>

Calculate ==
    /\ ~showResults
    /\ calculateFinalFootprint

NextCalc == Calculate

SpecCalc == InitCalc /\ [][NextCalc]_vars

(***************************************************************************)
(* The wizard.  A form control acts only while its screen (currentStep,    *)
(* subStep) is rendered, and no screen is rendered while the results are   *)
(* shown.  Each handler replaces one field of a copy of formData.  The     *)
(* number of fields that differ from initialFormData, counted over the     *)
(* form being edited and the form of the last calculation, is capped.      *)
(***************************************************************************)
MaxChanged == 2

Differing(r, r0) == Cardinality({k \in DOMAIN r : r[k] # r0[k]})

ChangedFields(data) ==
    Differing(data.transport, initialFormData.transport)
        + Differing(data.energy, initialFormData.energy)
        + Differing(data.lifestyle, initialFormData.lifestyle)

OnScreen(step, sub) == ~showResults /\ currentStep = step /\ subStep = sub

\* setFormData(data) from a form control
setFormData(data) ==
    /\ ~EffectPending
    /\ ChangedFields(data)
         + (IF calculatedFrom = <<>> THEN 0
            ELSE ChangedFields(calculatedFrom[1])) <= MaxChanged
    /\ formData' = data
    /\ UNCHANGED <<currentStep, subStep, showResults, progress,
                   carbonFootprint, calculatedFrom, effectDeps>>
    /\ recommendations' = renderedRecommendations'

SetTransport(field, value) ==
    setFormData([formData EXCEPT !.transport[field] = value])

SetEnergy(field, value) ==
    setFormData([formData EXCEPT !.energy[field] = value])

SetLifestyle(field, value) ==
    setFormData([formData EXCEPT !.lifestyle[field] = value])

\* The values picked in the wizard: for each Select a subset of its
\* SelectItems, for each number input and slider a few admissible values.
PickedCarTypes == {"none", "petrol", "hybrid"}

PickedPassengers == {1, 2}

PickedPublicTransport == {"none", "bus"}

PickedHomeTypes == {"house"}

PickedInsulation == {"poor", "medium", "good"}

PickedHeating == {"gas", "oil"}

PickedDiets == {"vegan", "omnivore"}

PickedMeatFrequency == {3}

TypedCarKm == {0, 20000}

TypedCarAge == {0, 5}

TypedPublicTransportKm == {0, 1000}

TypedFlights == {0, 1}

TypedHomeSize == {0, 100}

TypedOccupants == {1, 2}

TypedKwh == {0, 6000}

TypedHeating == {0, 1000}

TypedWater == {0, 150}

SliderRenewable == {50, 100}

SliderLocalFood == {0, 50}

SliderClothes == {50, 80}

SliderElectronics == {50, 20}

ChangeCarType ==
    /\ OnScreen(1, 1)
    /\ \E v \in PickedCarTypes : SetTransport("carType", v)

ChangeCarAge ==
    /\ OnScreen(1, 1)
    /\ formData.transport.carType # "none"
    /\ \E v \in TypedCarAge : SetTransport("carAge", v)

ChangeCarKm ==
    /\ OnScreen(1, 1)
    /\ formData.transport.carType # "none"
    /\ \E v \in TypedCarKm : SetTransport("carKm", v)

ChangeCarPassengers ==
    /\ OnScreen(1, 1)
    /\ formData.transport.carType # "none"
    /\ \E v \in PickedPassengers : SetTransport("carPassengers", v)

\* mutation: the stored distance cleared together with the mode
ChangePublicTransportType_ClearsKm ==
    /\ OnScreen(1, 2)
    /\ \E v \in PickedPublicTransport :
          setFormData([formData EXCEPT
                           !.transport.publicTransportType = v,
                           !.transport.publicTransportKm = 0])

ChangePublicTransportType ==
    /\ OnScreen(1, 2)
    /\ \E v \in PickedPublicTransport : SetTransport("publicTransportType", v)

ChangePublicTransportKm ==
    /\ OnScreen(1, 2)
    /\ formData.transport.publicTransportType # "none"
    /\ \E v \in TypedPublicTransportKm : SetTransport("publicTransportKm", v)

ChangeFlightsShortHaul ==
    /\ OnScreen(1, 3)
    /\ \E v \in TypedFlights : SetTransport("flightsShortHaul", v)

ChangeFlightsMediumHaul ==
    /\ OnScreen(1, 3)
    /\ \E v \in TypedFlights : SetTransport("flightsMediumHaul", v)

ChangeFlightsLongHaul ==
    /\ OnScreen(1, 3)
    /\ \E v \in TypedFlights : SetTransport("flightsLongHaul", v)

ChangeHomeType ==
    /\ OnScreen(2, 1)
    /\ \E v \in PickedHomeTypes : SetEnergy("homeType", v)

ChangeHomeSize ==
    /\ OnScreen(2, 1)
    /\ \E v \in TypedHomeSize : SetEnergy("homeSize", v)

ChangeOccupants ==
    /\ OnScreen(2, 1)
    /\ \E v \in TypedOccupants : SetEnergy("occupants", v)

ChangeInsulation ==
    /\ OnScreen(2, 1)
    /\ \E v \in PickedInsulation : SetEnergy("insulation", v)

ChangeElectricityKwh ==
    /\ OnScreen(2, 2)
    /\ \E v \in TypedKwh : SetEnergy("electricityKwh", v)

ChangeHeatingType ==
    /\ OnScreen(2, 2)
    /\ \E v \in PickedHeating : SetEnergy("heatingType", v)

ChangeHeatingConsumption ==
    /\ OnScreen(2, 2)
    /\ \E v \in TypedHeating : SetEnergy("heatingConsumption", v)

ChangeRenewableEnergy ==
    /\ OnScreen(2, 3)
    /\ \E v \in BOOLEAN : SetEnergy("renewableEnergy", v)

ChangeRenewablePercentage ==
    /\ OnScreen(2, 3)
    /\ formData.energy.renewableEnergy
    /\ \E v \in SliderRenewable : SetEnergy("renewablePercentage", <<v>>)

ChangeDietType ==
    /\ OnScreen(3, 1)
    /\ \E v \in PickedDiets : SetLifestyle("dietType", v)

ChangeMeatFrequency ==
    /\ OnScreen(3, 1)
    /\ formData.lifestyle.dietType \in {"flexitarian", "omnivore"}
    /\ \E v \in PickedMeatFrequency : SetLifestyle("meatFrequency", <<v>>)

ChangeLocalFoodPercentage ==
    /\ OnScreen(3, 1)
    /\ \E v \in SliderLocalFood : SetLifestyle("localFoodPercentage", v)

ChangeClothes ==
    /\ OnScreen(3, 2)
    /\ \E v \in SliderClothes :
          SetLifestyle("shoppingHabits",
                       [formData.lifestyle.shoppingHabits
                            EXCEPT !.clothes = v])

\* mutation: the furniture score moved with the electronics score
ChangeElectronics_AlsoFurniture ==
    /\ OnScreen(3, 2)
    /\ \E v \in SliderElectronics :
          SetLifestyle("shoppingHabits",
                       [formData.lifestyle.shoppingHabits
                            EXCEPT !.electronics = v, !.furniture = v])

ChangeElectronics ==
    /\ OnScreen(3, 2)
    /\ \E v \in SliderElectronics :
          SetLifestyle("shoppingHabits",
                       [formData.lifestyle.shoppingHabits
                            EXCEPT !.electronics = v])

ChangeWasteRecycling ==
    /\ OnScreen(3, 2)
    /\ \E v \in BOOLEAN : SetLifestyle("wasteRecycling", v)

ChangeWasteComposting ==
    /\ OnScreen(3, 2)
    /\ \E v \in BOOLEAN : SetLifestyle("wasteComposting", v)

ChangeWaterConsumption ==
    /\ OnScreen(3, 3)
    /\ \E v \in TypedWater : SetLifestyle("waterConsumption", v)

\* mutation: the calculation started at the end of every step
handleNext_NoStepTest ==
    /\ ~EffectPending
    /\ ~showResults
    /\ LET maxSubSteps == getCurrentStepMaxSubSteps
       IN IF subStep < maxSubSteps
          THEN /\ subStep' = subStep + 1
               /\ UNCHANGED <<formData, currentStep, showResults, progress,
                              carbonFootprint, calculatedFrom, effectDeps>>
               /\ recommendations' = renderedRecommendations'
          ELSE calculateFinalFootprint

\* mutation: the last screen followed by the first one again
handleNext_Wraps ==
    /\ ~EffectPending
    /\ ~showResults
    /\ LET maxSubSteps == getCurrentStepMaxSubSteps
       IN IF subStep < maxSubSteps
          THEN /\ subStep' = subStep + 1
               /\ UNCHANGED <<formData, currentStep, showResults, progress,
                              carbonFootprint, calculatedFrom, effectDeps>>
               /\ recommendations' = renderedRecommendations'
          ELSE /\ currentStep' = IF currentStep < 3 THEN currentStep + 1
                                 ELSE 1
               /\ subStep' = 1
               /\ UNCHANGED <<formData, showResults, progress,
                              carbonFootprint, calculatedFrom, effectDeps>>
               /\ recommendations' = renderedRecommendations'

handleNext ==
    /\ ~EffectPending
    /\ ~showResults
    /\ LET maxSubSteps == getCurrentStepMaxSubSteps
       IN IF subStep < maxSubSteps
          THEN /\ subStep' = subStep + 1
               /\ UNCHANGED <<formData, currentStep, showResults, progress,
                              carbonFootprint, calculatedFrom, effectDeps>>
               /\ recommendations' = renderedRecommendations'
          ELSE IF currentStep < 3
          THEN /\ currentStep' = currentStep + 1
               /\ subStep' = 1
               /\ UNCHANGED <<formData, showResults, progress,
                              carbonFootprint, calculatedFrom, effectDeps>>
               /\ recommendations' = renderedRecommendations'
          ELSE calculateFinalFootprint

\* mutation: no test of the first screen and of the first step
handleBack_NoFloor ==
    /\ ~EffectPending
    /\ ~showResults
    /\ currentStep >= 1
    /\ IF subStep > 1
       THEN /\ subStep' = subStep - 1
            /\ UNCHANGED currentStep
       ELSE /\ currentStep' = currentStep - 1
            /\ subStep' = getCurrentStepMaxSubSteps
    /\ UNCHANGED <<formData, showResults, progress, carbonFootprint,
                   calculatedFrom, effectDeps>>
    /\ recommendations' = renderedRecommendations'

\* the Retour button is disabled on the first screen
handleBack ==
    /\ ~EffectPending
    /\ ~showResults
    /\ ~(currentStep = 1 /\ subStep = 1)
    /\ IF subStep > 1
       THEN /\ subStep' = subStep - 1
            /\ UNCHANGED currentStep
       ELSE IF currentStep > 1
       THEN /\ currentStep' = currentStep - 1
            \* getCurrentStepMaxSubSteps() of the step being left
            /\ subStep' = getCurrentStepMaxSubSteps
       ELSE UNCHANGED <<currentStep, subStep>>
    /\ UNCHANGED <<formData, showResults, progress, carbonFootprint,
                   calculatedFrom, effectDeps>>
    /\ recommendations' = renderedRecommendations'

\* mutation: the form data kept
Restart_KeepsForm ==
    /\ ~EffectPending
    /\ showResults
    /\ carbonFootprint # <<>>
    /\ showResults' = FALSE
    /\ currentStep' = 1
    /\ subStep' = 1
    /\ UNCHANGED <<formData, progress, carbonFootprint, calculatedFrom,
                   effectDeps>>
    /\ recommendations' = renderedRecommendations'

\* "Recommencer le calcul"
Restart ==
    /\ ~EffectPending
    /\ showResults
    /\ carbonFootprint # <<>>
    /\ showResults' = FALSE
    /\ currentStep' = 1
    /\ subStep' = 1
    /\ formData' = initialFormData
    /\ UNCHANGED <<progress, carbonFootprint, calculatedFrom, effectDeps>>
    /\ recommendations' = renderedRecommendations'

Init ==
    /\ formData = initialFormData
    /\ currentStep = 1
    /\ subStep = 1
    /\ showResults = FALSE
    /\ progress = Num(0)
    /\ carbonFootprint = <<>>
    /\ recommendations = <<>>
    /\ calculatedFrom = <<>>
    /\ effectDeps = <<>>

Next ==
    \/ ChangeCarType
    \/ ChangeCarAge
    \/ ChangeCarKm
    \/ ChangeCarPassengers
    \/ ChangePublicTransportType
    \/ ChangePublicTransportKm
    \/ ChangeFlightsShortHaul
    \/ ChangeFlightsMediumHaul
    \/ ChangeFlightsLongHaul
    \/ ChangeHomeType
    \/ ChangeHomeSize
    \/ ChangeOccupants
    \/ ChangeInsulation
    \/ ChangeElectricityKwh
    \/ ChangeHeatingType
    \/ ChangeHeatingConsumption
    \/ ChangeRenewableEnergy
    \/ ChangeRenewablePercentage
    \/ ChangeDietType
    \/ ChangeMeatFrequency
    \/ ChangeLocalFoodPercentage
    \/ ChangeClothes
    \/ ChangeElectronics
    \/ ChangeWasteRecycling
    \/ ChangeWasteComposting
    \/ ChangeWaterConsumption
    \/ handleNext
    \/ handleBack
    \/ Restart
    \/ progressEffect

Spec == Init /\ [][Next]_vars

(***************************************************************************)
(* The user who only presses Next ("Suivant", then "Calculer"): the wizard *)
(* is on any of its nine screens with a form holding at most one answer,   *)
(* and the button is pressed until it is no longer rendered.               *)
(***************************************************************************)
PressForms ==
    {initialFormData}
    \cup {[initialFormData EXCEPT !.transport.carType = v] :
            v \in PickedCarTypes}
    \cup {[initialFormData EXCEPT !.transport.publicTransportType = v] :
            v \in PickedPublicTransport}
    \cup {[initialFormData EXCEPT !.transport.flightsLongHaul = v] :
            v \in TypedFlights}
    \cup {[initialFormData EXCEPT !.energy.insulation = v] :
            v \in PickedInsulation}
    \cup {[initialFormData EXCEPT !.energy.heatingType = v] :
            v \in PickedHeating}
    \cup {[initialFormData EXCEPT !.energy.electricityKwh = v] :
            v \in TypedKwh}
    \cup {[initialFormData EXCEPT !.lifestyle.dietType = v] :
            v \in PickedDiets}

InitPress ==
    /\ formData \in PressForms
    /\ currentStep \in {1, 2, 3}
    /\ subStep \in {1, 2, 3}
    /\ showResults = FALSE
    /\ progress = progressValue(currentStep, subStep)
    /\ carbonFootprint = <<>>
    /\ recommendations = <<>>
    /\ calculatedFrom = <<>>
    /\ effectDeps = <<currentStep, subStep>>

Press == handleNext

NextPress == Press \/ progressEffect

\* the Next button is rendered, and handleNext has a branch for every screen
PressAvailable == ~showResults /\ ~EffectPending

\* weak fairness of Press and of progressEffect, with ENABLED written out
\* as the condition under which the button is rendered and the effect is
\* pending: the button is pressed again as long as it is there, and React
\* runs a pending effect
PressFairness ==
    /\ []<>(~PressAvailable) \/ []<><<Press>>_vars
    /\ []<>(~EffectPending) \/ []<><<progressEffect>>_vars

SpecPress == InitPress /\ [][NextPress]_vars /\ PressFairness

(***************************************************************************)
(* Properties                                                              *)
(***************************************************************************)
Calculated == carbonFootprint # <<>>

Rendered == recommendations # <<>>

Footprint == carbonFootprint[1]

Recs == recommendations[1]

Ge0(x) == Ge(x, Num(0))

AbsentOrZero(opt) == opt = <<>> \/ opt[1] = 0

\* every numeric field 0, every flag false, every category "none" or its
\* neutral default
AllZeroNeutral ==
    LET t == formData.transport
        e == formData.energy
        l == formData.lifestyle
    IN /\ t.carType \in {"none", ""}
       /\ t.carKm = 0 /\ t.carAge = 0 /\ t.carPassengers = 0
       /\ t.publicTransportType \in {"none", ""}
       /\ t.publicTransportKm = 0
       /\ t.flightsShortHaul = 0 /\ t.flightsMediumHaul = 0
       /\ t.flightsLongHaul = 0
       /\ ~t.motorcycle.owns /\ AbsentOrZero(t.motorcycle.km)
       /\ e.homeType \in {"none", ""} /\ e.homeSize = 0 /\ e.occupants = 0
       /\ e.electricityKwh = 0
       /\ e.heatingType \in {"none", ""} /\ e.heatingConsumption = 0
       /\ ~e.renewableEnergy /\ AbsentOrZero(e.renewablePercentage)
       /\ e.insulation \in {"none", "", "medium"}
       /\ l.dietType \in {"none", ""} /\ AbsentOrZero(l.meatFrequency)
       /\ l.localFoodPercentage = 0
       /\ ~l.wasteRecycling /\ ~l.wasteComposting
       /\ l.shoppingHabits.clothes = 0 /\ l.shoppingHabits.electronics = 0
       /\ l.shoppingHabits.furniture = 0
       /\ l.waterConsumption = 0

\* C1 as stated: for every input record with every numeric field 0, every
\* flag false and every category "none" or neutral, the total is exactly 0.
C1_ZeroInputTotalIsZero ==
    (Calculated /\ AllZeroNeutral) => Footprint.total = Num(0)

\* C1 amended: for every such input record transport and energy are exactly
\* 0, and the total equals the lifestyle value, 2.5 tonnes: the omnivore
\* baseline the diet lookup falls back to.
C1_ZeroInputTotalIsDietBaseline ==
    (Calculated /\ AllZeroNeutral) =>
        /\ Footprint.breakdown.transport = Num(0)
        /\ Footprint.breakdown.energy = Num(0)
        /\ Footprint.breakdown.lifestyle = Dec(25, 10)
        /\ Footprint.total = Dec(25, 10)

C1_Witness ==
    /\ Calculated
    /\ AllZeroNeutral
    /\ formData.transport.carType = ""
    /\ formData.lifestyle.dietType = ""
    /\ formData.energy.insulation = "medium"

\* the transport record with every category outside its table read as "none"
UnknownAsNone(t) ==
    [t EXCEPT
        !.carType = IF @ \in DOMAIN EMISSIONS_FACTORS.car THEN @ ELSE "none",
        !.publicTransportType =
            IF @ \in DOMAIN EMISSIONS_FACTORS.publicTransport
            THEN @ ELSE "none"]

\* C2: for a car category or public-transport mode that is missing or
\* outside its known set the contribution is zero: the transport result
\* equals the result of the same input with that category set to "none".
C2_UnknownCategoryIsNone ==
    Calculated =>
        Footprint.breakdown.transport =
            calculateTransportEmissions(UnknownAsNone(formData.transport))

\* C3: for every well-typed input record each of breakdown.transport,
\* breakdown.energy, breakdown.lifestyle and total is a defined number,
\* never the result of arithmetic on an undefined value.
C3_ResultsAreDefined ==
    Calculated =>
        /\ ~IsNaN(Footprint.breakdown.transport)
        /\ ~IsNaN(Footprint.breakdown.energy)
        /\ ~IsNaN(Footprint.breakdown.lifestyle)
        /\ ~IsNaN(Footprint.total)

\* C4: in every result of calculateFinalFootprint, total is the sum of the
\* three breakdown entries and each entry is the value of its sector
\* calculator on the form data of the calculation.
C4_TotalIsSumOfBreakdown ==
    Calculated =>
        /\ Footprint.total =
               Add(Add(Footprint.breakdown.transport,
                       Footprint.breakdown.energy),
                   Footprint.breakdown.lifestyle)
        /\ Footprint.breakdown.transport =
               calculateTransportEmissions(formData.transport)
        /\ Footprint.breakdown.energy =
               calculateEnergyEmissions(formData.energy)
        /\ Footprint.breakdown.lifestyle =
               calculateLifestyleEmissions(formData.lifestyle)

C4_Witness ==
    /\ Calculated
    /\ Gt(Footprint.breakdown.transport, Num(0))
    /\ Gt(Footprint.breakdown.energy, Num(0))
    /\ Gt(Footprint.breakdown.lifestyle, Num(0))
    /\ Gt(Footprint.total, Footprint.breakdown.lifestyle)

InPercentRange(x) == 0 <= x /\ x <= 100

\* non-negative numbers, percentages and shopping scores in [0,100],
\* recognised categories
InRangeRecognised ==
    LET t == formData.transport
        e == formData.energy
        l == formData.lifestyle
    IN /\ t.carType \in DOMAIN EMISSIONS_FACTORS.car
       /\ t.publicTransportType \in DOMAIN EMISSIONS_FACTORS.publicTransport
       /\ t.carKm >= 0 /\ t.carAge >= 0 /\ t.carPassengers >= 0
       /\ t.publicTransportKm >= 0
       /\ t.flightsShortHaul >= 0 /\ t.flightsMediumHaul >= 0
       /\ t.flightsLongHaul >= 0
       /\ e.heatingType \in DOMAIN ENERGY_CONVERSION_FACTORS
       /\ e.insulation \in DOMAIN insulationFactors
       /\ e.electricityKwh >= 0 /\ e.heatingConsumption >= 0
       /\ e.renewablePercentage # <<>> =>
              InPercentRange(e.renewablePercentage[1])
       /\ l.dietType \in DOMAIN EMISSIONS_FACTORS.diet
       /\ InPercentRange(l.localFoodPercentage)
       /\ InPercentRange(l.shoppingHabits.clothes)
       /\ InPercentRange(l.shoppingHabits.electronics)
       /\ InPercentRange(l.shoppingHabits.furniture)

\* C5: for every input with non-negative numbers, percentages and shopping
\* scores in [0,100] and recognised categories, each sector value and the
\* total are non-negative.
C5_NonNegative ==
    (Calculated /\ InRangeRecognised) =>
        /\ Ge0(Footprint.breakdown.transport)
        /\ Ge0(Footprint.breakdown.energy)
        /\ Ge0(Footprint.breakdown.lifestyle)
        /\ Ge0(Footprint.total)

C5_Witness ==
    /\ Calculated
    /\ InRangeRecognised
    /\ formData.lifestyle.localFoodPercentage = 100
    /\ formData.energy.renewableEnergy
    /\ formData.energy.renewablePercentage = <<100>>
    /\ formData.energy.electricityKwh > 0

\* C6: the comparison holds nationalAverage 9.0 and worldAverage 4.7, each
\* percentage is (total - average) / average * 100 evaluated from left to
\* right, and each percentage is positive exactly when total is strictly
\* above its average.
C6_Comparison ==
    Calculated =>
        LET c == Footprint.comparison
            total == Footprint.total
        IN /\ c.nationalAverage = Num(9)
           /\ c.worldAverage = Dec(47, 10)
           /\ c.percentageFromNational =
                  Mul(Div(Sub(total, Num(9)), Num(9)), Num(100))
           /\ c.percentageFromWorld =
                  Mul(Div(Sub(total, Dec(47, 10)), Dec(47, 10)), Num(100))
           /\ Gt(c.percentageFromNational, Num(0)) <=> Gt(total, Num(9))
           /\ Gt(c.percentageFromWorld, Num(0)) <=> Gt(total, Dec(47, 10))

C6_Witness ==
    /\ Calculated
    /\ Gt(Footprint.total, Num(9))
    /\ Gt(Footprint.comparison.percentageFromNational, Num(0))
    /\ Gt(Footprint.comparison.percentageFromWorld,
          Footprint.comparison.percentageFromNational)

\* the threshold table of the recommendation engine, read on the record d
FiresIn(d, a) ==
    LET t == d.transport
        e == d.energy
        l == d.lifestyle
    IN CASE a = ActReduceCar -> t.carKm > 15000
         [] a = ActFlights -> t.flightsLongHaul > 0
         [] a = ActGreenVehicle -> t.carType \in {"petrol", "diesel"}
         [] a = ActElectricity -> e.electricityKwh > 5000
         [] a = ActRenewables -> e.renewableEnergy = FALSE
         [] a = ActInsulation -> e.insulation \in {"poor", "medium"}
         [] a = ActHeating -> e.heatingType = "oil"
         [] a = ActMeat -> l.dietType = "omnivore"
         [] a = ActLocalFood -> l.localFoodPercentage < 30
         [] a = ActWaste -> l.wasteRecycling = FALSE
                            \/ l.wasteComposting = FALSE
         [] a = ActShopping -> l.shoppingHabits.clothes > 70
                               \/ l.shoppingHabits.electronics > 70

Fires(a) == FiresIn(formData, a)

DeclaredOrder ==
    [Transport |-> <<ActReduceCar, ActFlights, ActGreenVehicle>>,
     Energie |-> <<ActElectricity, ActRenewables, ActInsulation,
                   ActHeating>>,
     Mode_de_vie |-> <<ActMeat, ActLocalFood, ActWaste, ActShopping>>]

OrderOf(category) ==
    CASE category = "Transport" -> DeclaredOrder.Transport
      [] category = "Energie" -> DeclaredOrder.Energie
      [] category = "Mode de vie" -> DeclaredOrder.Mode_de_vie

CategoryOrder == <<"Transport", "Energie", "Mode de vie">>

Range(seq) == {seq[i] : i \in 1..Len(seq)}

AllActions ==
    Range(DeclaredOrder.Transport) \cup Range(DeclaredOrder.Energie)
        \cup Range(DeclaredOrder.Mode_de_vie)

InRecs(a) == \E i \in 1..Len(Recs) : a \in Range(Recs[i].actions)

SectorFires(category) == \E a \in Range(OrderOf(category)) : Fires(a)

\* C7: each of the eleven actions is in the output exactly when its
\* predicate of the threshold table holds (strict comparisons; the
\* furniture score fires none).
C7_ActionIffPredicate ==
    Rendered => \A a \in AllActions : InRecs(a) <=> Fires(a)

C7_Witness ==
    /\ Rendered
    /\ formData.transport.carKm = 15000
    /\ formData.energy.electricityKwh = 5000
    /\ formData.lifestyle.localFoodPercentage = 30
    /\ formData.lifestyle.shoppingHabits.clothes = 70
    /\ formData.lifestyle.shoppingHabits.electronics = 70
    /\ formData.lifestyle.shoppingHabits.furniture = 100
    /\ ~InRecs(ActReduceCar) /\ ~InRecs(ActElectricity)
    /\ ~InRecs(ActLocalFood) /\ ~InRecs(ActShopping)
    /\ InRecs(ActMeat) /\ InRecs(ActHeating)

\* C8: within each sector of the recommendation set the actions are exactly
\* those whose predicates hold, in the declaration order of the threshold
\* table, none duplicated.
C8_ActionsInDeclaredOrder ==
    Rendered =>
        \A i \in 1..Len(Recs) :
            Recs[i].actions = SelectSeq(OrderOf(Recs[i].category), Fires)

C8_Witness ==
    /\ Rendered
    /\ formData.transport.carKm = 20000
    /\ formData.transport.carType = "petrol"
    /\ Len(Recs) > 0
    /\ Recs[1].category = "Transport"
    /\ Recs[1].actions = <<ActReduceCar, ActGreenVehicle>>

\* C9: the categories appear in the order Transport, Energy, Lifestyle, each
\* at most once, a category is present exactly when one of its predicates
\* fired, and no category has an empty action list.
C9_CategoriesPresentIffFired ==
    Rendered =>
        /\ [i \in 1..Len(Recs) |-> Recs[i].category] =
               SelectSeq(CategoryOrder, SectorFires)
        /\ \A i \in 1..Len(Recs) : Len(Recs[i].actions) > 0

C9_Witness ==
    /\ Rendered
    /\ Len(Recs) = 2
    /\ Recs[1].category = "Transport"
    /\ Recs[2].category = "Mode de vie"
    /\ ~SectorFires("Energie")

\* the recommendation set the threshold table prescribes for the record d
RecsFor(d) ==
    LET cats == SelectSeq(CategoryOrder,
                          LAMBDA c : \E a \in Range(OrderOf(c)) :
                                         FiresIn(d, a))
    IN [i \in 1..Len(cats) |->
           [category |-> cats[i],
            actions |-> SelectSeq(OrderOf(cats[i]),
                                  LAMBDA a : FiresIn(d, a))]]

\* the unused fields all at their first values, and all at their second
UnusedProbes ==
    {[motorcycle |-> [owns |-> FALSE, type |-> <<>>, km |-> <<>>],
      homeType |-> "", homeSize |-> 0, occupants |-> 1,
      meatFrequency |-> <<>>, waterConsumption |-> 0],
     [motorcycle |-> [owns |-> TRUE, type |-> <<"scooter">>,
                      km |-> <<3000>>],
      homeType |-> "house", homeSize |-> 120, occupants |-> 4,
      meatFrequency |-> <<7>>, waterConsumption |-> 150]}

\* C12: replacing the accepted-but-unused fields (motorcycle, homeType,
\* homeSize, occupants, meatFrequency, waterConsumption) of the input by
\* other values leaves the total, the breakdown, the comparison and the
\* recommendation set as they are: every submitted record, whatever its
\* unused fields hold, gives the result of the same record with the unused
\* fields all at their first values and all at their second.
C12_UnusedFieldsIgnored ==
    (Calculated /\ Rendered) =>
        \A u \in UnusedProbes :
            /\ footprintResult(WithUnused(formData, u)) = Footprint
            /\ RecsFor(WithUnused(formData, u)) = Recs

C12_Witness ==
    /\ Calculated
    /\ Rendered
    /\ formData.transport.motorcycle.owns
    /\ formData.energy.homeType = "house"
    /\ formData.energy.homeSize = 120
    /\ formData.energy.occupants = 4
    /\ formData.lifestyle.meatFrequency = <<7>>
    /\ formData.lifestyle.waterConsumption = 150
    /\ Gt(Footprint.breakdown.energy, Num(0))
    /\ Len(Recs) = 3

\* the part of the transport result the car branch adds: the result less
\* the result of the same record without a car
CarContribution(t) ==
    Sub(calculateTransportEmissions(t),
        calculateTransportEmissions([t EXCEPT !.carType = "none"]))

\* the car contribution of the calculation stored in carbonFootprint
CarPart ==
    Sub(Footprint.breakdown.transport,
        calculateTransportEmissions(
            [formData.transport EXCEPT !.carType = "none"]))

\* the public-transport mode is missing, none or recognised, so that the
\* transport result shows the car contribution
ModeKnown ==
    formData.transport.publicTransportType
        \in DOMAIN EMISSIONS_FACTORS.publicTransport \cup {""}

RecognisedCar ==
    /\ formData.transport.carType \in DOMAIN EMISSIONS_FACTORS.car
    /\ formData.transport.carType # "none"

\* C13: for a recognised car category other than none and non-negative
\* inputs the car contribution does not decrease when carKm or carAge
\* grows and is the same for every carAge of 15 and above; the age
\* multiplier is at least 1, never exceeds 1.3 and is 1.3 from age 15 on.
C13_MonotoneInKmAndAge ==
    (/\ Calculated
     /\ RecognisedCar
     /\ ModeKnown
     /\ formData.transport.carKm >= 0
     /\ formData.transport.carAge >= 0
     /\ formData.transport.carPassengers >= 0) =>
        LET t == formData.transport
        IN /\ \A km \in CarKms :
                  km >= t.carKm =>
                      Ge(CarContribution([t EXCEPT !.carKm = km]), CarPart)
           /\ \A age \in CarAges :
                  age >= t.carAge =>
                      Ge(CarContribution([t EXCEPT !.carAge = age]), CarPart)
           /\ \A age \in CarAges :
                  (age >= 15 /\ t.carAge >= 15) =>
                      CarContribution([t EXCEPT !.carAge = age]) = CarPart
           /\ \A age \in CarAges :
                  LET m == ageMultiplier([t EXCEPT !.carAge = age])
                  IN /\ age >= 0 => Ge(m, Num(1)) /\ Ge(Dec(13, 10), m)
                     /\ age >= 15 => m = Dec(13, 10)

C13_Witness ==
    /\ Calculated
    /\ ModeKnown
    /\ formData.transport.carType = "petrol"
    /\ formData.transport.carKm = 15000
    /\ formData.transport.carAge = 20
    /\ Gt(CarPart,
          CarContribution([formData.transport EXCEPT !.carAge = 5]))
    /\ Gt(CarContribution([formData.transport EXCEPT !.carKm = 20000]),
          CarPart)
    /\ ageMultiplier(formData.transport) = Dec(13, 10)
    /\ Gt(Dec(13, 10),
          ageMultiplier([formData.transport EXCEPT !.carAge = 5]))

\* C14 as stated: for every input with carPassengers = p >= 1, raising
\* carPassengers to p + 1 with all other fields fixed strictly lowers the
\* car contribution.
C14_StrictlyDecreasingForEveryInput ==
    (Calculated /\ ModeKnown /\ formData.transport.carPassengers >= 1) =>
        Gt(CarPart,
           CarContribution([formData.transport EXCEPT
                                !.carPassengers = @ + 1]))

\* C14 amended: for carPassengers = p >= 1, raising carPassengers to p + 1
\* strictly lowers the car contribution when that contribution is positive,
\* leaves it 0 when it is 0 (no car, or carKm = 0), and leaves it NaN for a
\* car category outside the table; a passenger count of 0 counts as 1.
C14_StrictlyDecreasingWhenPositive ==
    (Calculated /\ ModeKnown /\ formData.transport.carPassengers >= 0) =>
        LET t == formData.transport
            more == CarContribution([t EXCEPT !.carPassengers = @ + 1])
            single == CarContribution([t EXCEPT !.carPassengers = 1])
        IN /\ (t.carPassengers >= 1 /\ Gt(CarPart, Num(0))) =>
                  /\ Gt(CarPart, more)
                  /\ Ge(single, CarPart)
           /\ (t.carPassengers >= 1 /\ CarPart = Num(0)) => more = Num(0)
           /\ IsNaN(CarPart) => IsNaN(more)
           /\ t.carPassengers = 0 => CarPart = single
           /\ (RecognisedCar /\ t.carKm > 0) => Gt(CarPart, Num(0))

C14_Witness ==
    /\ Calculated
    /\ ModeKnown
    /\ formData.transport.carType = "diesel"
    /\ formData.transport.carKm = 20000
    /\ formData.transport.carPassengers = 2
    /\ Gt(CarPart,
          CarContribution([formData.transport EXCEPT !.carPassengers = 3]))

\* the lifestyle value of the record l with both waste reductions disabled
Unreduced(l) ==
    calculateLifestyleEmissions([l EXCEPT !.wasteRecycling = FALSE,
                                          !.wasteComposting = FALSE])

\* the numbers a and b differ by at most b / 10^9 (b >= 0)
Within(a, b) ==
    /\ Ge(Mul(b, Dec(1, 1000000000)), Sub(a, b))
    /\ Ge(Mul(b, Dec(1, 1000000000)), Sub(b, a))

\* C15 as stated: the lifestyle value is the value with recycling and
\* composting both disabled (diet plus shopping) multiplied by exactly 0.855
\* when both are enabled, by 0.9 for recycling alone and by 0.95 for
\* composting alone; enabling the second reduction multiplies the value with
\* the first alone by the second factor, in either order.
C15_WasteReductionsCompose ==
    Calculated =>
        LET l == formData.lifestyle
            base == Unreduced(l)
            recOnly == calculateLifestyleEmissions(
                           [l EXCEPT !.wasteRecycling = TRUE,
                                     !.wasteComposting = FALSE])
            compOnly == calculateLifestyleEmissions(
                            [l EXCEPT !.wasteRecycling = FALSE,
                                      !.wasteComposting = TRUE])
            value == Footprint.breakdown.lifestyle
        IN /\ (l.wasteRecycling /\ l.wasteComposting) =>
                  /\ value = Mul(base, Dec(855, 1000))
                  /\ value = Mul(recOnly, Dec(95, 100))
                  /\ value = Mul(compOnly, Dec(9, 10))
           /\ (l.wasteRecycling /\ ~l.wasteComposting) =>
                  value = Mul(base, Dec(9, 10))
           /\ (~l.wasteRecycling /\ l.wasteComposting) =>
                  value = Mul(base, Dec(95, 100))
           /\ (~l.wasteRecycling /\ ~l.wasteComposting) => value = base

\* C15 amended: the reductions apply to the whole running total, recycling
\* first: with both enabled the lifestyle value is (base * 0.9) * 0.95, each
\* product rounded, base being the value with both disabled; with one
\* enabled it is base * 0.9 or base * 0.95.  The value with both enabled
\* agrees with base * 0.855 and with the opposite order (base * 0.95) * 0.9
\* to within rounding, not digit for digit.  A base of NaN stays NaN.
C15_WasteReductionsInOrder ==
    Calculated =>
        LET l == formData.lifestyle
            base == Unreduced(l)
            recOnly == calculateLifestyleEmissions(
                           [l EXCEPT !.wasteRecycling = TRUE,
                                     !.wasteComposting = FALSE])
            compOnly == calculateLifestyleEmissions(
                            [l EXCEPT !.wasteRecycling = FALSE,
                                      !.wasteComposting = TRUE])
            value == Footprint.breakdown.lifestyle
        IN /\ recOnly = Mul(base, Dec(9, 10))
           /\ compOnly = Mul(base, Dec(95, 100))
           /\ (l.wasteRecycling /\ l.wasteComposting) =>
                  /\ value = Mul(Mul(base, Dec(9, 10)), Dec(95, 100))
                  /\ IsNaN(base) => IsNaN(value)
                  /\ ~IsNaN(base) =>
                         /\ Within(value, Mul(base, Dec(855, 1000)))
                         /\ Within(value, Mul(compOnly, Dec(9, 10)))
           /\ (l.wasteRecycling /\ ~l.wasteComposting) => value = recOnly
           /\ (~l.wasteRecycling /\ l.wasteComposting) => value = compOnly
           /\ (~l.wasteRecycling /\ ~l.wasteComposting) => value = base

\* both reductions on the omnivore baseline alone: 2.1374999999999997, where
\* 2.5 * 0.855 is 2.1375
C15_Witness ==
    /\ Calculated
    /\ formData.lifestyle.wasteRecycling
    /\ formData.lifestyle.wasteComposting
    /\ formData.lifestyle.dietType = "omnivore"
    /\ formData.lifestyle.localFoodPercentage = 0
    /\ formData.lifestyle.shoppingHabits
           = [clothes |-> 0, electronics |-> 0, furniture |-> 0]
    /\ Unreduced(formData.lifestyle) = Dec(25, 10)
    /\ Footprint.breakdown.lifestyle # Dec(21375, 10000)
    /\ Gt(Dec(21375, 10000), Footprint.breakdown.lifestyle)

\* C16: with renewableEnergy disabled, the electricity term for twice the
\* electricityKwh is twice the electricity term, and with
\* heatingConsumption = 0 the energy result for twice the electricityKwh is
\* exactly twice the energy result (stated for energy results that are
\* numbers).
C16_DoublingElectricity ==
    (Calculated /\ ~formData.energy.renewableEnergy) =>
        LET e == formData.energy
            doubled == [e EXCEPT !.electricityKwh = 2 * @]
            value == Footprint.breakdown.energy
        IN /\ electricityEmissions(doubled) =
                  Mul(Num(2), electricityEmissions(e))
           /\ (~IsNaN(value) /\ e.heatingConsumption = 0) =>
                  calculateEnergyEmissions(doubled) = Mul(Num(2), value)

C16_Witness ==
    /\ Calculated
    /\ ~formData.energy.renewableEnergy
    /\ formData.energy.electricityKwh = 6000
    /\ formData.energy.heatingConsumption = 0
    /\ formData.energy.insulation = "poor"
    /\ Gt(Footprint.breakdown.energy, Num(0))
    /\ calculateEnergyEmissions(
           [formData.energy EXCEPT !.electricityKwh = 12000]) =
           Mul(Num(2), Footprint.breakdown.energy)

\* the coefficients of the reference formula, kg CO2e per km
ReferenceCarCoef ==
    [electric |-> Dec(24, 1000), hybrid |-> Dec(89, 1000),
     petrol |-> Dec(192, 1000), diesel |-> Dec(171, 1000)]

ReferenceModeCoef ==
    [bus |-> Dec(89, 1000), train |-> Dec(41, 1000),
     tram |-> Dec(35, 1000), subway |-> Dec(33, 1000)]

\* ( [carType != none] carKm*coef*(1 + min(carAge,15)*0.02)/max(p,1)
\*   + [mode != none] publicTransportKm*coef
\*   + 180*short + 400*medium + 1800*long ) / 1000
TransportReference(t) ==
    LET age == IF t.carAge < 15 THEN t.carAge ELSE 15
        passengers == IF t.carPassengers < 1 THEN 1 ELSE t.carPassengers
        car == IF t.carType # "none"
               THEN Div(Mul(Mul(Num(t.carKm), ReferenceCarCoef[t.carType]),
                            Add(Num(1), Mul(Num(age), Dec(2, 100)))),
                        Num(passengers))
               ELSE Num(0)
        mode == IF t.publicTransportType # "none"
                THEN Mul(Num(t.publicTransportKm),
                         ReferenceModeCoef[t.publicTransportType])
                ELSE Num(0)
        flights == Num(180 * t.flightsShortHaul + 400 * t.flightsMediumHaul
                         + 1800 * t.flightsLongHaul)
    IN Div(Add(Add(car, mode), flights), Num(1000))

RecognisedTransport ==
    /\ formData.transport.carType \in DOMAIN EMISSIONS_FACTORS.car
    /\ formData.transport.publicTransportType
           \in DOMAIN EMISSIONS_FACTORS.publicTransport

\* petrol, 20000 km, age 5, 1 passenger, all else zero/none
ScenarioPetrol ==
    formData.transport =
        TransportRec("petrol", 20000, 5, 1, "none", 0, 0, 0, 0)

\* C17: for every input with recognised categories the transport result
\* equals the reference formula, a passenger count below 1 counting as 1;
\* petrol, 20000 km, age 5, 1 passenger, all else zero/none gives 4.224.
C17_TransportEqualsReference ==
    (Calculated /\ RecognisedTransport) =>
        /\ Footprint.breakdown.transport =
               TransportReference(formData.transport)
        /\ ScenarioPetrol =>
               Footprint.breakdown.transport = Dec(4224, 1000)

C17_Witness ==
    /\ Calculated
    /\ ScenarioPetrol
    /\ Footprint.breakdown.transport = Dec(4224, 1000)

ReferenceConv ==
    [gas |-> Dec(1055, 100), oil |-> Num(10), electric |-> Num(1),
     heatPump |-> Num(1)]

ReferenceHeatingFactor ==
    [gas |-> Dec(205, 1000), oil |-> Dec(324, 1000),
     electric |-> Dec(571, 10000), heatPump |-> Dec(19, 1000)]

\* (heatingConsumption * conv(fuel) / 1000) * factor(fuel); a fuel outside
\* the tables uses conv 1.0 and the electric factor
HeatingReference(e) ==
    LET known == e.heatingType \in DOMAIN ReferenceConv
        conv == IF known THEN ReferenceConv[e.heatingType] ELSE Num(1)
        factor == IF known THEN ReferenceHeatingFactor[e.heatingType]
                  ELSE Dec(571, 10000)
    IN Mul(Div(Mul(Num(e.heatingConsumption), conv), Num(1000)), factor)

\* 6000 kWh electricity, gas, 1000 m3, medium insulation, no renewables
ScenarioGas ==
    /\ formData.energy.electricityKwh = 6000
    /\ formData.energy.heatingType = "gas"
    /\ formData.energy.heatingConsumption = 1000
    /\ formData.energy.insulation = "medium"
    /\ ~formData.energy.renewableEnergy

HeatingAsReference ==
    LET e == formData.energy
    IN /\ heatingEmissions(e) = HeatingReference(e)
       /\ Footprint.breakdown.energy =
              Mul(Add(electricityEmissions(e), HeatingReference(e)),
                  insulationMultiplier(e))
       /\ ScenarioGas => Footprint.breakdown.energy = Dec(250535, 100000)

\* C18: for every input the heating term equals (heatingConsumption *
\* conv(fuel) / 1000) * factor(fuel), a missing or unrecognised fuel using
\* conv 1.0 and the electric factor 0.0571, and the energy result is built
\* from that term; the gas scenario gives 2.50535.
C18_HeatingTermEqualsReference == Calculated => HeatingAsReference

\* C18 restricted: the same for every heating fuel that is a key of the
\* tables, the empty string or a name the table objects do not inherit.
C18_HeatingTermOutsideInheritedKeys ==
    (Calculated /\ formData.energy.heatingType \notin ObjectPrototypeKeys) =>
        HeatingAsReference

\* the heating term of a fuel named like an inherited property is NaN
C18_InheritedKeyGivesNaN ==
    (Calculated /\ formData.energy.heatingType \in ObjectPrototypeKeys) =>
        /\ IsNaN(heatingEmissions(formData.energy))
        /\ IsNaN(Footprint.breakdown.energy)

\* (electricityKwh/1000)*0.0571, scaled by (1 - renewablePercentage/100)
\* when the flag is set and a percentage is present
ElectricityReference(e) ==
    LET base == Mul(Div(Num(e.electricityKwh), Num(1000)), Dec(571, 10000))
    IN IF e.renewableEnergy /\ e.renewablePercentage # <<>>
       THEN Mul(base,
                Sub(Num(1), Div(Num(e.renewablePercentage[1]), Num(100))))
       ELSE base

\* C19: the electricity term is (electricityKwh/1000)*0.0571 scaled by
\* (1 - renewablePercentage/100) exactly when the renewable flag is set and a
\* percentage is present; with the flag unset the energy result is that of
\* the same record without a stored percentage, and with the flag set and no
\* percentage it is that of the same record with the flag unset.
C19_RenewableScaling ==
    Calculated =>
        LET e == formData.energy
            value == Footprint.breakdown.energy
        IN /\ electricityEmissions(e) = ElectricityReference(e)
           /\ value = Mul(Add(ElectricityReference(e), heatingEmissions(e)),
                          insulationMultiplier(e))
           /\ ~e.renewableEnergy =>
                  value = calculateEnergyEmissions(
                              [e EXCEPT !.renewablePercentage = <<>>])
           /\ (e.renewableEnergy /\ e.renewablePercentage = <<>>) =>
                  value = calculateEnergyEmissions(
                              [e EXCEPT !.renewableEnergy = FALSE])

\* the flag unset with a percentage left behind, and a flagged record with
\* the same percentage whose result is lower
C19_Witness ==
    /\ Calculated
    /\ ~formData.energy.renewableEnergy
    /\ formData.energy.renewablePercentage = <<50>>
    /\ formData.energy.electricityKwh = 6000
    /\ ~IsNaN(Footprint.breakdown.energy)
    /\ Footprint.breakdown.energy =
           calculateEnergyEmissions(
               [formData.energy EXCEPT !.renewablePercentage = <<>>])
    /\ Gt(Footprint.breakdown.energy,
          calculateEnergyEmissions(
              [formData.energy EXCEPT !.renewableEnergy = TRUE]))

ReferenceInsulation ==
    [poor |-> Dec(13, 10), medium |-> Num(1), good |-> Dec(8, 10),
     excellent |-> Dec(6, 10)]

InsulationAsReference ==
    LET e == formData.energy
        known == e.insulation \in DOMAIN ReferenceInsulation
        multiplier == IF known THEN ReferenceInsulation[e.insulation]
                      ELSE Num(1)
    IN /\ Footprint.breakdown.energy =
              Mul(Add(electricityEmissions(e), heatingEmissions(e)),
                  multiplier)
       /\ ~known =>
              Footprint.breakdown.energy =
                  calculateEnergyEmissions([e EXCEPT !.insulation = "medium"])

\* C20: for every input the energy result is the sum of the electricity and
\* heating terms multiplied once by {poor 1.3, medium 1.0, good 0.8,
\* excellent 0.6}, and a missing or unrecognised insulation level gives the
\* same energy result as 'medium'.
C20_InsulationOnSum == Calculated => InsulationAsReference

\* C20 restricted: the same for every insulation level that is a key of the
\* table, the empty string or a name the table object does not inherit.
C20_InsulationOutsideInheritedKeys ==
    (Calculated /\ formData.energy.insulation \notin ObjectPrototypeKeys) =>
        InsulationAsReference

\* the energy result of an insulation level named like an inherited
\* property is NaN
C20_InheritedKeyGivesNaN ==
    (Calculated /\ formData.energy.insulation \in ObjectPrototypeKeys) =>
        IsNaN(Footprint.breakdown.energy)

ReferenceDietBase ==
    [vegan |-> 1000, vegetarian |-> 1500, pescatarian |-> 1700,
     flexitarian |-> 2000, omnivore |-> 2500]

\* ( base(diet)*(1 - localFoodPercentage*0.002)/1000
\*   + (clothes*0.1 + electronics*0.2 + furniture*0.15)*0.01 )
\*   * [0.9 if recycling] * [0.95 if composting];
\* a diet outside the table counts as omnivore
LifestyleReference(l) ==
    LET base == IF l.dietType \in DOMAIN ReferenceDietBase
                THEN ReferenceDietBase[l.dietType] ELSE 2500
        diet == Div(Mul(Num(base),
                        Sub(Num(1),
                            Mul(Num(l.localFoodPercentage), Dec(2, 1000)))),
                    Num(1000))
        shopping == Mul(Add(Add(Mul(Num(l.shoppingHabits.clothes),
                                    Dec(1, 10)),
                                Mul(Num(l.shoppingHabits.electronics),
                                    Dec(2, 10))),
                            Mul(Num(l.shoppingHabits.furniture),
                                Dec(15, 100))),
                        Dec(1, 100))
        recycling == IF l.wasteRecycling THEN Dec(9, 10) ELSE Num(1)
        composting == IF l.wasteComposting THEN Dec(95, 100) ELSE Num(1)
    IN Mul(Mul(Add(diet, shopping), recycling), composting)

\* vegan, 100% local food, shopping all 0, no recycling, no composting
ScenarioVegan ==
    formData.lifestyle =
        LifestyleRec("vegan", 100, FALSE, FALSE, 0, 0, 0)

LifestyleAsReference ==
    LET l == formData.lifestyle
    IN /\ Footprint.breakdown.lifestyle = LifestyleReference(l)
       /\ l.dietType \notin DOMAIN ReferenceDietBase =>
              Footprint.breakdown.lifestyle =
                  calculateLifestyleEmissions(
                      [l EXCEPT !.dietType = "omnivore"])
       /\ ScenarioVegan => Footprint.breakdown.lifestyle = Dec(8, 10)

\* C21: for every input the lifestyle result equals the reference formula,
\* any missing or unrecognised diet giving the same result as omnivore; the
\* vegan scenario gives 0.8.
C21_LifestyleEqualsReference == Calculated => LifestyleAsReference

\* C21 restricted: the same for every diet that is a key of the table, the
\* empty string or a name the table object does not inherit.
C21_LifestyleOutsideInheritedKeys ==
    (Calculated /\ formData.lifestyle.dietType \notin ObjectPrototypeKeys) =>
        LifestyleAsReference

\* the lifestyle result of a diet named like an inherited property is NaN
C21_InheritedKeyGivesNaN ==
    (Calculated /\ formData.lifestyle.dietType \in ObjectPrototypeKeys) =>
        IsNaN(Footprint.breakdown.lifestyle)

Position == <<currentStep, subStep>>

\* C22: in every reachable state currentStep and subStep are in {1,2,3}; no
\* step leaves position (1,1) for anything but (1,2), so Back at (1,1)
\* leaves the position unchanged; Next at (3,3) leaves the position
\* unchanged.
C22_PositionInRange ==
    /\ [](currentStep \in {1, 2, 3} /\ subStep \in {1, 2, 3})
    /\ [][Position = <<1, 1>> => Position' \in {<<1, 1>>, <<1, 2>>}]_vars
    /\ [][(handleNext /\ Position = <<3, 3>>) => Position' = Position]_vars

C22_Witness ==
    /\ showResults
    /\ Position = <<3, 3>>
    /\ formData # initialFormData

\* the screen after and before the screen p in the order (1,1), (1,2), ...,
\* (3,3)
NextPosition(p) ==
    IF p[2] < 3 THEN <<p[1], p[2] + 1>>
    ELSE IF p[1] < 3 THEN <<p[1] + 1, 1>>
    ELSE p

BackPosition(p) ==
    IF p[2] > 1 THEN <<p[1], p[2] - 1>>
    ELSE IF p[1] > 1 THEN <<p[1] - 1, 3>>
    ELSE p

\* C23: every Next step moves to the following screen and every Back step
\* to the preceding one, neither changing the form data; the screen before
\* the screen after p is p for p other than (3,3), and the screen after the
\* screen before p is p for p other than (1,1).
C23_NextBackInverse ==
    /\ [][handleNext =>
            (Position' = NextPosition(Position) /\ formData' = formData)]_vars
    /\ [][handleBack =>
            (Position' = BackPosition(Position) /\ formData' = formData)]_vars
    /\ [](~showResults =>
            /\ Position # <<3, 3>> =>
                   BackPosition(NextPosition(Position)) = Position
            /\ Position # <<1, 1>> =>
                   NextPosition(BackPosition(Position)) = Position)

\* step 2's last screen with a lifestyle answer already given: the user went
\* on to step 3 and came back
C23_Witness ==
    /\ ~showResults
    /\ Position = <<2, 3>>
    /\ formData.lifestyle # initialFormData.lifestyle
    /\ carbonFootprint = <<>>

\* C24: showResults becomes true only in a Next step at position (3,3); in
\* every state where showResults is true carbonFootprint is non-null and is
\* the calculation applied to the current form data, and the rendered
\* recommendations are those of the same form data.
C24_ResultsOnlyByNextAtEnd ==
    /\ [][(~showResults /\ showResults') =>
            (handleNext /\ Position = <<3, 3>>)]_vars
    /\ [](showResults =>
            /\ carbonFootprint # <<>>
            /\ Footprint = footprintResult(formData)
            /\ calculatedFrom = <<formData>>
            /\ recommendations = <<RecsFor(formData)>>)

C24_Witness ==
    /\ showResults
    /\ Footprint = footprintResult(formData)
    /\ Gt(Footprint.breakdown.transport, Num(0))
    /\ Rendered
    /\ Recs = RecsFor(formData)
    /\ Len(Recs) = 3

\* the number of the screen p in the order (1,1), (1,2), ..., (3,3)
Rank(p) == 3 * (p[1] - 1) + p[2]

\* C25: each press of Next on a screen other than (3,3) moves to the next
\* screen in the order (1,1), (1,2), (1,3), (2,1), ..., (3,3) without showing
\* the results, and the press on (3,3) shows them, so that from (1,1) the
\* results appear with the 9th press; from every screen, if Next keeps
\* being pressed the results are eventually shown.
C25_NinePressesToResults ==
    /\ [][handleNext =>
            IF Rank(Position) < 9
            THEN /\ Rank(Position') = Rank(Position) + 1
                 /\ ~showResults'
            ELSE /\ Position' = Position
                 /\ showResults']_vars
    /\ [](~showResults => Rank(Position) \in 1..9)
    /\ <>showResults

C25_Witness ==
    /\ showResults
    /\ formData = initialFormData
    /\ Position = <<3, 3>>
    /\ Calculated

\* C26: the step that leaves the results view (Restart) sets showResults to
\* false, the position to (1,1) and the form data to initialFormData; every
\* result shown for the initial form data is the result of the untouched
\* run, whatever was calculated before.
C26_RestartResets ==
    /\ [][(showResults /\ ~showResults') =>
            /\ Position' = <<1, 1>>
            /\ formData' = initialFormData]_vars
    /\ [][Restart => (showResults /\ ~showResults')]_vars
    /\ []((showResults /\ formData = initialFormData) =>
            /\ Footprint = footprintResult(initialFormData)
            /\ recommendations = <<RecsFor(initialFormData)>>)

\* just after a restart that followed a calculation on an edited form
C26_Witness ==
    /\ ~showResults
    /\ Position = <<1, 1>>
    /\ formData = initialFormData
    /\ calculatedFrom # <<>>
    /\ calculatedFrom[1] # initialFormData
    /\ Footprint # footprintResult(initialFormData)

\* the number of keys on which the records r and q differ
KeysDiffering(r, q, keys) == Cardinality({k \in keys : r[k] # q[k]})

\* the number of fields, down to the single scores of shoppingHabits and the
\* members of motorcycle, on which the form data d and f differ
FieldsDiffering(d, f) ==
    KeysDiffering(d.transport, f.transport,
                  DOMAIN d.transport \ {"motorcycle"})
    + KeysDiffering(d.transport.motorcycle, f.transport.motorcycle,
                    DOMAIN d.transport.motorcycle)
    + KeysDiffering(d.energy, f.energy, DOMAIN d.energy)
    + KeysDiffering(d.lifestyle, f.lifestyle,
                    DOMAIN d.lifestyle \ {"shoppingHabits"})
    + KeysDiffering(d.lifestyle.shoppingHabits, f.lifestyle.shoppingHabits,
                    DOMAIN d.lifestyle.shoppingHabits)

\* C27: every step that changes the form data while the wizard is shown (a
\* form edit) changes exactly one field and leaves the position, showResults
\* and the stored result unchanged; a change of carType keeps carKm, carAge
\* and carPassengers, a change of publicTransportType keeps
\* publicTransportKm, a change of renewableEnergy keeps renewablePercentage,
\* and a change of one shopping score keeps the other two.
C27_EditChangesOneField ==
    [][(~showResults /\ formData' # formData) =>
         LET t == formData.transport
             e == formData.energy
             h == formData.lifestyle.shoppingHabits
         IN /\ FieldsDiffering(formData, formData') = 1
            /\ Position' = Position
            /\ showResults' = showResults
            /\ carbonFootprint' = carbonFootprint
            /\ t.carType' # t.carType =>
                   /\ t.carKm' = t.carKm
                   /\ t.carAge' = t.carAge
                   /\ t.carPassengers' = t.carPassengers
            /\ t.publicTransportType' # t.publicTransportType =>
                   t.publicTransportKm' = t.publicTransportKm
            /\ e.renewableEnergy' # e.renewableEnergy =>
                   e.renewablePercentage' = e.renewablePercentage
            /\ h.clothes' # h.clothes =>
                   /\ h.electronics' = h.electronics
                   /\ h.furniture' = h.furniture
            /\ h.electronics' # h.electronics =>
                   /\ h.clothes' = h.clothes
                   /\ h.furniture' = h.furniture]_vars

\* the public-transport mode set to none after a distance was entered
C27_Witness ==
    /\ ~showResults
    /\ formData.transport.publicTransportType = "none"
    /\ formData.transport.publicTransportKm = 1000

\* the form data after the edits carType = petrol, carKm = 20000,
\* carType = none on the initial form
ScenarioCarGivenUp ==
    [initialFormData EXCEPT !.transport.carKm = 20000]

\* C28: the "reduce car travel" action is recommended exactly when the
\* stored carKm exceeds 15000, whatever carType is: with carType none and
\* such a carKm the calculated transport result has no car contribution
\* (it is the result of the same record with carKm 0) while the first
\* recommended category is Transport and holds the action; after the edits
\* petrol, 20000, none the transport result is 0 and the Transport category
\* holds that action alone.
C28_ReduceCarOnKmAlone ==
    Rendered =>
        LET t == formData.transport
        IN /\ InRecs(ActReduceCar) <=> t.carKm > 15000
           /\ (t.carType = "none" /\ t.carKm > 15000) =>
                  /\ Footprint.breakdown.transport
                         = calculateTransportEmissions([t EXCEPT !.carKm = 0])
                  /\ Recs[1].category = "Transport"
                  /\ Recs[1].actions[1] = ActReduceCar
           /\ formData = ScenarioCarGivenUp =>
                  /\ Footprint.breakdown.transport = Num(0)
                  /\ Recs[1] = [category |-> "Transport",
                                actions |-> <<ActReduceCar>>]

\* the results of the form whose car was given up after 20000 km were
\* entered
C28_Witness ==
    /\ Rendered
    /\ formData = ScenarioCarGivenUp
    /\ formData.transport.carType = "none"
    /\ Footprint.breakdown.transport = Num(0)
    /\ InRecs(ActReduceCar)

\* the results are shown for the form as it is after construction
UntouchedSubmitted ==
    /\ showResults
    /\ Calculated
    /\ Rendered
    /\ formData = initialFormData

\* C29: the results of the untouched initial form are transport 0, energy 0
\* and lifestyle 2.725 (the omnivore baseline 2.5 charged for the empty diet
\* plus 0.225 for the three shopping scores of 50), total 2.725, and the
\* recommendation set is Energie [renewables, insulation] followed by Mode
\* de vie [local food, waste]: no Transport category and no meat action.
C29_UntouchedFormResult ==
    UntouchedSubmitted =>
        /\ Footprint.breakdown.transport = Num(0)
        /\ Footprint.breakdown.energy = Num(0)
        /\ Footprint.breakdown.lifestyle = Dec(2725, 1000)
        /\ Footprint.breakdown.lifestyle
               = Add(Dec(25, 10), Dec(225, 1000))
        /\ Footprint.total = Dec(2725, 1000)
        /\ Recs = << [category |-> "Energie",
                      actions |-> <<ActRenewables, ActInsulation>>],
                     [category |-> "Mode de vie",
                      actions |-> <<ActLocalFood, ActWaste>>] >>
        /\ ~InRecs(ActMeat)
        /\ \A i \in 1..Len(Recs) : Recs[i].category # "Transport"

\* the ninth press on the untouched form: results at the last position
C29_Witness ==
    /\ UntouchedSubmitted
    /\ calculatedFrom = <<initialFormData>>
    /\ Position = <<3, 3>>
    /\ formData.lifestyle.dietType = ""

\* the furniture score of 50 at 0.15 per point, in tonnes
FurnitureTerm == Mul(Mul(Num(50), Dec(15, 100)), Dec(1, 100))

\* the factor the recycling and composting reductions apply to the sum
WasteFactor(lifestyle) ==
    Mul(IF lifestyle.wasteRecycling THEN Dec(9, 10) ELSE Num(1),
        IF lifestyle.wasteComposting THEN Dec(95, 100) ELSE Num(1))

\* C30: in every state of the wizard shoppingHabits.furniture is 50 and
\* motorcycle.owns is false, and every lifestyle result calculated holds
\* the furniture term: 50 * 0.15 is 7.5 in the shopping sum, 7.5 * 0.01 is
\* 0.075, and the result exceeds the result of the same answers without
\* furniture by 0.075 scaled by the waste reductions, up to the rounding of
\* the sums.
C30_FurnitureFixed ==
    /\ formData.lifestyle.shoppingHabits.furniture = 50
    /\ ~formData.transport.motorcycle.owns
    /\ Mul(Num(50), Dec(15, 100)) = Dec(75, 10)
    /\ FurnitureTerm = Dec(75, 1000)
    /\ Calculated =>
           LET l == calculatedFrom[1].lifestyle
               without == calculateLifestyleEmissions(
                              [l EXCEPT !.shoppingHabits.furniture = 0])
               value == Footprint.breakdown.lifestyle
           IN /\ l.shoppingHabits.furniture = 50
              /\ Gt(value, without)
              /\ Within(Sub(value, without),
                        Mul(FurnitureTerm, WasteFactor(l)))

\* results of a form whose electronics score and recycling answer were
\* edited
C30_Witness ==
    /\ showResults
    /\ Calculated
    /\ calculatedFrom = <<formData>>
    /\ formData.lifestyle.shoppingHabits.electronics = 20
    /\ formData.lifestyle.wasteRecycling
    /\ formData.lifestyle.shoppingHabits.furniture = 50

====
